---- MODULE Spec2Model ----
(***************************************************************************)
(* A model of the simulation core of abm-civilization:                     *)
(*   src/models/star.py, src/models/civilization.py, src/models/universe.py *)
(*                                                                         *)
(* The Python floats are modelled as exact rationals <<n, d>> (d > 0, in   *)
(* lowest terms), so every arithmetic statement below is a statement about *)
(* the real-number value of the code's expressions; IEEE rounding is not   *)
(* modelled.  Star positions are points (x, 0, 0) with integer x, so that  *)
(* the Euclidean norm is |x1 - x2|.  Python dicts whose iteration order is *)
(* observable (Universe.stars, Universe.civilizations,                     *)
(* Civilization.visited_stars, Star.visiting_civilizations) are sequences  *)
(* in insertion order; Civilization.colonies, whose order is not           *)
(* observable in exact arithmetic, is a function.                          *)
(***************************************************************************)
EXTENDS Integers, Sequences, FiniteSets, TLC

VARIABLES
    stars,          \* Universe.stars: sequence of star objects, insertion order
    civ,            \* every Civilization object ever constructed, by id
    civilizations,  \* Universe.civilizations: registered ids, insertion order
    current_date,   \* Universe.current_date
    history,        \* Universe.history
    pc,             \* position of the control flow inside Universe.update
    snapshot,       \* list(self.civilizations.values()) of the running tick
    si,             \* index into snapshot of the civilization being updated
    origins,        \* list(self.visited_stars.keys()) of the expansion phase
    oi,             \* index into origins
    candidates,     \* candidate_stars of the current origin
    ci,             \* index into candidates
    vi,             \* index into visited_stars of the interaction phase
    visitors,       \* copy of the star's visit map, without self
    wi,             \* index into visitors
    update_calls,   \* ids on which Civilization.update was called this tick
    steps,          \* run_simulation: the number of steps asked for
    step,           \* run_simulation: iterations of its loop completed
    callbacks,      \* run_simulation: what each callback invocation saw
    twin            \* the state of a second run (used by SpecTwin only)

vars == <<stars, civ, civilizations, current_date, history, pc, snapshot, si,
          origins, oi, candidates, ci, vi, visitors, wi, update_calls,
          steps, step, callbacks, twin>>

-----------------------------------------------------------------------------
(* Bounds of the model.                                                    *)

MaxDate == 11

-----------------------------------------------------------------------------
(* Exact rational arithmetic for the code's floats.                        *)

Abs(x) == IF x < 0 THEN -x ELSE x

RECURSIVE GCD(_, _)
GCD(a, b) == IF b = 0 THEN a ELSE GCD(b, a % b)

Norm(n, d) ==
    LET g == GCD(Abs(n), d) IN <<n \div g, d \div g>>

R(n) == <<n, 1>>

RAdd(x, y) ==
    LET g == GCD(x[2], y[2])
    IN  Norm(x[1] * (y[2] \div g) + y[1] * (x[2] \div g), x[2] * (y[2] \div g))

RNeg(x) == <<-x[1], x[2]>>

RSub(x, y) == RAdd(x, RNeg(y))

RMul(x, y) ==
    LET g1 == GCD(Abs(x[1]), y[2])
        g2 == GCD(Abs(y[1]), x[2])
    IN  Norm((x[1] \div g1) * (y[1] \div g2), (x[2] \div g2) * (y[2] \div g1))

RInv(x) == IF x[1] > 0 THEN <<x[2], x[1]>> ELSE <<-x[2], -x[1]>>

RDiv(x, y) == RMul(x, RInv(y))

\* x < y, comparing the integer parts first to keep the products small.
RLt(x, y) ==
    LET g == GCD(x[2], y[2])
        qx == x[1] \div x[2]
        qy == y[1] \div y[2]
    IN  IF qx # qy THEN qx < qy
        ELSE (x[1] % x[2]) * (y[2] \div g) < (y[1] % y[2]) * (x[2] \div g)

RGt(x, y) == RLt(y, x)

RLe(x, y) == ~RLt(y, x)

RECURSIVE RSum(_, _)
RSum(f, S) ==
    IF S = {} THEN R(0)
    ELSE LET k == CHOOSE k \in S : TRUE IN RAdd(f[k], RSum(f, S \ {k}))

-----------------------------------------------------------------------------
(* Program constants.                                                      *)

MinimumEstablishmentTime == 10
MinimumViablePopulation == 100
PlanetCapacity == 1000000000
ExpansionBatch == 10
StatisticsPeriod == 10

ColonyFraction == <<1, 10>>
CaptureFraction == <<1, 2>>
KnowledgeBonus == <<6, 5>>
ExpansionBonus == <<3, 2>>
SeedingBonus == <<13, 10>>
ResourcePenalty == <<1, 5>>
ResourceThreshold == <<3, 5>>
TechExchangeRate == <<1, 10>>

-----------------------------------------------------------------------------
(* Sequences used as insertion-ordered dicts.                              *)

Range(s) == {s[i] : i \in 1..Len(s)}

RemoveFromSeq(s, x) == SelectSeq(s, LAMBDA y : y # x)

Event(date, kind, data) == [date |-> date, event |-> kind, data |-> data]

-----------------------------------------------------------------------------
(* Star.                                                                   *)

Star(id, position, resources, planets) ==
    [id |-> id, position |-> position, resources |-> resources,
     planets |-> planets, visiting_civilizations |-> <<>>]

distance_to(a, b) == R(Abs(a.position - b.position))

HasVisitor(star, civ_id) ==
    \E i \in 1..Len(star.visiting_civilizations) :
        star.visiting_civilizations[i].civ = civ_id

\* Variant of record_visit in which the last visit wins.
record_visit_last_wins(star, civ_id, date) ==
    IF HasVisitor(star, civ_id)
    THEN [star EXCEPT !.visiting_civilizations =
                          [i \in 1..Len(@) |->
                              IF @[i].civ = civ_id
                              THEN [civ |-> civ_id, date |-> date]
                              ELSE @[i]]]
    ELSE [star EXCEPT !.visiting_civilizations =
                          Append(@, [civ |-> civ_id, date |-> date])]

\* Variant of record_visit that starts the visit map afresh.
record_visit_resetting(star, civ_id, date) ==
    [star EXCEPT !.visiting_civilizations = <<[civ |-> civ_id, date |-> date]>>]

record_visit(star, civ_id, date) ==
    IF HasVisitor(star, civ_id) THEN star
    ELSE [star EXCEPT !.visiting_civilizations =
                          Append(@, [civ |-> civ_id, date |-> date])]

get_visiting_civilizations(star) == star.visiting_civilizations

-----------------------------------------------------------------------------
(* Universe: registries and lookups.  st is the whole program state.       *)

StarIndex(st, star_id) ==
    CHOOSE i \in 1..Len(st.stars) : st.stars[i].id = star_id

HasStar(st, star_id) == \E i \in 1..Len(st.stars) : st.stars[i].id = star_id

get_star(st, star_id) == st.stars[StarIndex(st, star_id)]

IsRegistered(st, civ_id) == civ_id \in Range(st.civilizations)

get_nearby_stars(st, position, range_limit) ==
    SelectSeq(st.stars,
              LAMBDA s : LET distance == R(Abs(s.position - position))
                         IN  RLe(distance, range_limit) /\ RGt(distance, R(0)))

\* Variant of universe_add_to_history that puts the newest event first.
universe_add_to_history_first(st, date, kind, data) ==
    [st EXCEPT !.history = <<Event(date, kind, data)>> \o @]

universe_add_to_history(st, date, kind, data) ==
    [st EXCEPT !.history = Append(@, Event(date, kind, data))]

add_civilization(st, civ_id) ==
    universe_add_to_history(
        [st EXCEPT !.civilizations = Append(@, civ_id)],
        st.current_date, "new_civilization",
        [id |-> civ_id, name |-> st.civ[civ_id].params.name,
         origin_star |-> st.civ[civ_id].params.origin_star])

\* Variant of remove_civilization that logs the extinction but leaves the
\* registry entry in place (the del of line 94 left out).
remove_civilization_keeping_entry(st, civ_id) ==
    IF IsRegistered(st, civ_id)
    THEN universe_add_to_history(
             st, st.current_date, "civilization_extinct",
             [id |-> civ_id, name |-> st.civ[civ_id].params.name,
              existed_for |-> st.current_date
                              - st.civ[civ_id].params.founding_date])
    ELSE st

\* Variant of remove_civilization under which the tick walks the live
\* registry: a civilization removed before its turn also leaves the part of
\* the sequence still to be walked.
remove_civilization_live(st, civ_id) ==
    IF IsRegistered(st, civ_id)
    THEN universe_add_to_history(
             [st EXCEPT !.civilizations = RemoveFromSeq(@, civ_id),
                        !.snapshot =
                            SubSeq(@, 1, st.si)
                            \o RemoveFromSeq(SubSeq(@, st.si + 1, Len(@)),
                                             civ_id)],
             st.current_date, "civilization_extinct",
             [id |-> civ_id, name |-> st.civ[civ_id].params.name,
              existed_for |-> st.current_date
                              - st.civ[civ_id].params.founding_date])
    ELSE st

\* Variant of remove_civilization without the membership test: the
\* extinction is logged whether or not the id is registered.
remove_civilization_unguarded(st, civ_id) ==
    universe_add_to_history(
        [st EXCEPT !.civilizations = RemoveFromSeq(@, civ_id)],
        st.current_date, "civilization_extinct",
        IF civ_id \in DOMAIN st.civ
        THEN [id |-> civ_id, name |-> st.civ[civ_id].params.name,
              existed_for |-> st.current_date
                              - st.civ[civ_id].params.founding_date]
        ELSE [id |-> civ_id, name |-> "", existed_for |-> 0])

\* Variant of remove_civilization that also purges the id from the stars'
\* visit maps.
remove_civilization_purging(st, civ_id) ==
    IF IsRegistered(st, civ_id)
    THEN universe_add_to_history(
             [st EXCEPT
                !.civilizations = RemoveFromSeq(@, civ_id),
                !.stars = [k \in 1..Len(st.stars) |->
                    [st.stars[k] EXCEPT !.visiting_civilizations =
                        SelectSeq(@, LAMBDA v : v.civ # civ_id)]]],
             st.current_date, "civilization_extinct",
             [id |-> civ_id, name |-> st.civ[civ_id].params.name,
              existed_for |-> st.current_date
                              - st.civ[civ_id].params.founding_date])
    ELSE st

remove_civilization(st, civ_id) ==
    IF IsRegistered(st, civ_id)
    THEN universe_add_to_history(
             [st EXCEPT !.civilizations = RemoveFromSeq(@, civ_id)],
             st.current_date, "civilization_extinct",
             [id |-> civ_id, name |-> st.civ[civ_id].params.name,
              existed_for |-> st.current_date
                              - st.civ[civ_id].params.founding_date])
    ELSE st

-----------------------------------------------------------------------------
(* Civilization: construction and the dict operations it uses.             *)

ColGet(colonies, star_id) ==
    IF star_id \in DOMAIN colonies THEN colonies[star_id] ELSE R(0)

ColSet(colonies, star_id, population) ==
    [k \in DOMAIN colonies \cup {star_id} |->
        IF k = star_id THEN population ELSE colonies[k]]

ColPop(colonies, star_id) ==
    [k \in DOMAIN colonies \ {star_id} |-> colonies[k]]

VisitedKeys(self) ==
    [i \in 1..Len(self.visited_stars) |-> self.visited_stars[i].star]

HasVisited(self, star_id) ==
    \E i \in 1..Len(self.visited_stars) : self.visited_stars[i].star = star_id

VisitedSet(visited_stars, star_id, date) ==
    IF \E i \in 1..Len(visited_stars) : visited_stars[i].star = star_id
    THEN [i \in 1..Len(visited_stars) |->
            IF visited_stars[i].star = star_id
            THEN [star |-> star_id, date |-> date] ELSE visited_stars[i]]
    ELSE Append(visited_stars, [star |-> star_id, date |-> date])

civ_add_to_history(st, c, date, kind, data) ==
    [st EXCEPT !.civ[c].history = Append(@, Event(date, kind, data))]

get_total_population(self) == RSum(self.colonies, DOMAIN self.colonies)

NewCivilization(params) ==
    [params |-> params,
     visited_stars |-> <<[star |-> params.origin_star,
                          date |-> params.founding_date]>>,
     colonies |-> (params.origin_star :> params.population),
     history |-> <<Event(params.founding_date, "founding",
                         [star |-> params.origin_star,
                          tech_level |-> params.tech_level,
                          population |-> params.population])>>,
     tech_history |-> <<<<params.founding_date, params.tech_level>>>>,
     population_history |-> <<<<params.founding_date, params.population>>>>]

civilization_init(st, params) ==
    [st EXCEPT
        !.civ = (params.id :> NewCivilization(params)) @@ @,
        !.stars[StarIndex(st, params.origin_star)] =
            record_visit(@, params.id, params.founding_date)]

-----------------------------------------------------------------------------
(* Civilization.update, phase 1: population.                               *)

carrying_capacity(star) ==
    RMul(RMul(star.resources, R(PlanetCapacity)), R(star.planets))

\* Variant of new_population without the carrying-capacity clamp.
new_population_unclamped(params, star, population) ==
    LET growth_rate == RSub(params.reproduction_rate,
                            RDiv(R(1), params.individual_lifespan))
        effective_growth_rate == RMul(growth_rate, star.resources)
    IN  RMul(population, RAdd(R(1), effective_growth_rate))

new_population(params, star, population) ==
    LET growth_rate == RSub(params.reproduction_rate,
                            RDiv(R(1), params.individual_lifespan))
        effective_growth_rate == RMul(growth_rate, star.resources)
        grown == RMul(population, RAdd(R(1), effective_growth_rate))
    IN  IF RGt(grown, carrying_capacity(star))
        THEN carrying_capacity(star) ELSE grown

_update_population(st, c) ==
    LET self == st.civ[c]
        colonies == [s \in DOMAIN self.colonies |->
                        IF HasStar(st, s)
                        THEN new_population(self.params, get_star(st, s),
                                            self.colonies[s])
                        ELSE self.colonies[s]]
        total_population ==
            RSum(colonies, {s \in DOMAIN colonies : HasStar(st, s)})
    IN  [st EXCEPT
            !.civ[c].colonies = colonies,
            !.civ[c].params.population = total_population,
            !.civ[c].population_history =
                Append(@, <<st.current_date, total_population>>)]

-----------------------------------------------------------------------------
(* Phase 2: technology.                                                    *)

new_tech_level(params) ==
    LET basic == RMul(params.tech_level,
                      RAdd(R(1), params.tech_advancement_rate))
    IN  IF params.motivation = "knowledge"
        THEN RMul(basic, KnowledgeBonus) ELSE basic

\* Variant of _update_technology that advances the level without sampling it.
_update_technology_unsampled(st, c) ==
    [st EXCEPT !.civ[c].params.tech_level = new_tech_level(st.civ[c].params)]

_update_technology(st, c) ==
    LET level == new_tech_level(st.civ[c].params)
    IN  [st EXCEPT
            !.civ[c].params.tech_level = level,
            !.civ[c].tech_history = Append(@, <<st.current_date, level>>)]

-----------------------------------------------------------------------------
(* Phase 3: expansion.                                                     *)

\* Variant of expansion_ready that measures the establishment time from
\* date 0 instead of the founding date.
expansion_ready_since_start(st, c) ==
    ~(st.current_date < MinimumEstablishmentTime)

expansion_ready(st, c) ==
    ~(st.current_date - st.civ[c].params.founding_date
        < MinimumEstablishmentTime)

effective_range(params) == RMul(params.expansion_range, params.tech_level)

\* Variant of candidate_stars without the visited_stars filter.
candidate_stars_unfiltered(st, c, origin_star_id) ==
    LET nearby == get_nearby_stars(st, get_star(st, origin_star_id).position,
                                   effective_range(st.civ[c].params))
    IN  [i \in 1..Len(nearby) |-> nearby[i].id]

candidate_stars(st, c, origin_star_id) ==
    LET self == st.civ[c]
        nearby == get_nearby_stars(st, get_star(st, origin_star_id).position,
                                   effective_range(self.params))
        unvisited == SelectSeq(nearby, LAMBDA s : ~HasVisited(self, s.id))
    IN  [i \in 1..Len(unvisited) |-> unvisited[i].id]

motivation_factor(params, star) ==
    CASE params.motivation = "expansion" -> ExpansionBonus
      [] params.motivation = "seeding" -> SeedingBonus
      [] params.motivation = "resource"
           /\ RLt(star.resources, ResourceThreshold) -> ResourcePenalty
      [] OTHER -> R(1)

expansion_probability(params, origin_star, star) ==
    LET distance == distance_to(origin_star, star)
        base == RMul(params.expansion_rate,
                     RSub(R(1), RDiv(distance, effective_range(params))))
    IN  RMul(RMul(base, star.resources), motivation_factor(params, star))

beyond_range(params, origin_star, star) ==
    RGt(distance_to(origin_star, star), effective_range(params))

\* Variant of establish_colony that founds the colony without recording
\* the star in visited_stars.
establish_colony_unrecorded(st, c, origin_star_id, star_id) ==
    LET self == st.civ[c]
        origin_population == ColGet(self.colonies, origin_star_id)
        colony_size == RMul(origin_population, ColonyFraction)
        st1 == [st EXCEPT
                  !.stars[StarIndex(st, star_id)] =
                      record_visit(@, c, st.current_date),
                  !.civ[c].colonies =
                      ColSet(ColSet(@, origin_star_id,
                                    RSub(origin_population, colony_size)),
                             star_id, colony_size)]
    IN  civ_add_to_history(st1, c, st.current_date, "expansion",
            [from_star |-> origin_star_id, to_star |-> star_id,
             distance |-> distance_to(get_star(st, origin_star_id),
                                      get_star(st, star_id)),
             colony_size |-> colony_size])

\* Variant of establish_colony that founds the colony without taking the
\* settlers from the origin.
establish_colony_undeducted(st, c, origin_star_id, star_id) ==
    LET self == st.civ[c]
        origin_population == ColGet(self.colonies, origin_star_id)
        colony_size == RMul(origin_population, ColonyFraction)
        st1 == [st EXCEPT
                  !.civ[c].visited_stars =
                      VisitedSet(@, star_id, st.current_date),
                  !.stars[StarIndex(st, star_id)] =
                      record_visit(@, c, st.current_date),
                  !.civ[c].colonies =
                      ColSet(ColSet(@, origin_star_id, origin_population),
                             star_id, colony_size)]
    IN  civ_add_to_history(st1, c, st.current_date, "expansion",
            [from_star |-> origin_star_id, to_star |-> star_id,
             distance |-> distance_to(get_star(st, origin_star_id),
                                      get_star(st, star_id)),
             colony_size |-> colony_size])

establish_colony(st, c, origin_star_id, star_id) ==
    LET self == st.civ[c]
        origin_population == ColGet(self.colonies, origin_star_id)
        colony_size == RMul(origin_population, ColonyFraction)
        st1 == [st EXCEPT
                  !.civ[c].visited_stars =
                      VisitedSet(@, star_id, st.current_date),
                  !.stars[StarIndex(st, star_id)] =
                      record_visit(@, c, st.current_date),
                  !.civ[c].colonies =
                      ColSet(ColSet(@, origin_star_id,
                                    RSub(origin_population, colony_size)),
                             star_id, colony_size)]
    IN  civ_add_to_history(st1, c, st.current_date, "expansion",
            [from_star |-> origin_star_id, to_star |-> star_id,
             distance |-> distance_to(get_star(st, origin_star_id),
                                      get_star(st, star_id)),
             colony_size |-> colony_size])

\* Variant of expansion_limit_reached without the batch limit.
expansion_limit_never(self) == FALSE

expansion_limit_reached(self) ==
    Len(self.visited_stars) % ExpansionBatch = 0

-----------------------------------------------------------------------------
(* Phase 4: interaction.                                                   *)

other_visitors(st, c, star_id) ==
    LET copy == get_visiting_civilizations(get_star(st, star_id))
        others == SelectSeq(copy, LAMBDA v : v.civ # c)
    IN  [i \in 1..Len(others) |-> others[i].civ]

both_established(st, c, other, star_id) ==
    ~(star_id \notin DOMAIN st.civ[other].colonies
        \/ star_id \notin DOMAIN st.civ[c].colonies)

\* Variant of is_peaceful that also treats equal factors as peaceful.
is_peaceful_or_equal(params) ==
    ~RLt(params.cooperation_factor, params.aggression_factor)

is_peaceful(params) ==
    RGt(params.cooperation_factor, params.aggression_factor)

\* Variant of _peaceful_interaction that scales the boost by the other
\* civilization's cooperation factor.
_peaceful_interaction_their_factor(st, c, other, star_id) ==
    LET ours == st.civ[c].params.tech_level
        theirs == st.civ[other].params.tech_level
        tech_boost == RMul(RMul(RSub(theirs, ours),
                                st.civ[other].params.cooperation_factor),
                           TechExchangeRate)
    IN  IF RGt(theirs, ours)
        THEN civ_add_to_history(
                 [st EXCEPT !.civ[c].params.tech_level = RAdd(@, tech_boost)],
                 c, st.current_date, "tech_exchange",
                 [with_civilization |-> other, at_star |-> star_id,
                  tech_boost |-> tech_boost])
        ELSE st

\* Variant of _peaceful_interaction that logs the exchange on the other
\* civilization's history as well.
_peaceful_interaction_both_logged(st, c, other, star_id) ==
    LET ours == st.civ[c].params.tech_level
        theirs == st.civ[other].params.tech_level
        tech_boost == RMul(RMul(RSub(theirs, ours),
                                st.civ[c].params.cooperation_factor),
                           TechExchangeRate)
        learned == civ_add_to_history(
                 [st EXCEPT !.civ[c].params.tech_level = RAdd(@, tech_boost)],
                 c, st.current_date, "tech_exchange",
                 [with_civilization |-> other, at_star |-> star_id,
                  tech_boost |-> tech_boost])
    IN  IF RGt(theirs, ours)
        THEN civ_add_to_history(learned, other, st.current_date,
                 "tech_exchange",
                 [with_civilization |-> c, at_star |-> star_id,
                  tech_boost |-> R(0)])
        ELSE st

_peaceful_interaction(st, c, other, star_id) ==
    LET ours == st.civ[c].params.tech_level
        theirs == st.civ[other].params.tech_level
        tech_boost == RMul(RMul(RSub(theirs, ours),
                                st.civ[c].params.cooperation_factor),
                           TechExchangeRate)
    IN  IF RGt(theirs, ours)
        THEN civ_add_to_history(
                 [st EXCEPT !.civ[c].params.tech_level = RAdd(@, tech_boost)],
                 c, st.current_date, "tech_exchange",
                 [with_civilization |-> other, at_star |-> star_id,
                  tech_boost |-> tech_boost])
        ELSE st

\* Variant of effective_strength that leaves the aggression factor out.
effective_strength_without_aggression(self, star_id) ==
    RMul(ColGet(self.colonies, star_id), self.params.tech_level)

effective_strength(self, star_id) ==
    RMul(RMul(ColGet(self.colonies, star_id), self.params.tech_level),
         self.params.aggression_factor)

\* Variant of initiator_wins under which a tie goes to the initiator.
initiator_wins_ties(st, c, other, star_id) ==
    ~RLt(effective_strength(st.civ[c], star_id),
         effective_strength(st.civ[other], star_id))

initiator_wins(st, c, other, star_id) ==
    RGt(effective_strength(st.civ[c], star_id),
        effective_strength(st.civ[other], star_id))

\* Variant of colony_defeated that spares a colony of exactly 100.
colony_defeated_below(population) ==
    RLt(population, R(MinimumViablePopulation))

colony_defeated(population) == RLe(population, R(MinimumViablePopulation))

\* Variant of half_of that moves a quarter.
quarter_of(population) == RMul(population, <<1, 4>>)

\* their_population * 0.5, our_population * 0.5
half_of(population) == RMul(population, CaptureFraction)

\* Variant of transfer_population that credits the winner without debiting
\* the loser.
transfer_population_without_debit(st, loser, winner, star_id, amount) ==
    [st EXCEPT !.civ[winner].colonies[star_id] = RAdd(@, amount)]

\* winner.colonies[star.id] += amount; loser.colonies[star.id] -= amount
transfer_population(st, loser, winner, star_id, amount) ==
    [st EXCEPT !.civ[winner].colonies[star_id] = RAdd(@, amount),
               !.civ[loser].colonies[star_id] = RSub(@, amount)]

\* The branch of _hostile_interaction taken when the initiator c is stronger.
hostile_won(st, c, other, star_id) ==
    LET captured_population ==
            half_of(ColGet(st.civ[other].colonies, star_id))
        st1 == civ_add_to_history(
                 transfer_population(st, other, c, star_id,
                                     captured_population),
                 c, st.current_date, "conflict_won",
                 [against_civilization |-> other, at_star |-> star_id,
                  captured_population |-> captured_population])
        st2 == [st1 EXCEPT !.civ[other].colonies = ColPop(@, star_id)]
    IN  IF colony_defeated(st1.civ[other].colonies[star_id])
        THEN IF DOMAIN st2.civ[other].colonies = {}
             THEN civ_add_to_history(
                      remove_civilization(st2, other),
                      c, st.current_date, "extinction_caused",
                      [civilization |-> other])
             ELSE st2
        ELSE st1

\* The branch taken otherwise: the other side wins (ties included).
hostile_lost(st, c, other, star_id) ==
    LET lost_population == half_of(ColGet(st.civ[c].colonies, star_id))
        st1 == civ_add_to_history(
                 transfer_population(st, c, other, star_id, lost_population),
                 c, st.current_date, "conflict_lost",
                 [against_civilization |-> other, at_star |-> star_id,
                  lost_population |-> lost_population])
        st2 == [st1 EXCEPT !.civ[c].colonies = ColPop(@, star_id)]
    IN  IF colony_defeated(st1.civ[c].colonies[star_id])
        THEN IF DOMAIN st2.civ[c].colonies = {}
             THEN civ_add_to_history(
                      remove_civilization(st2, c),
                      c, st.current_date, "extinction",
                      [caused_by |-> other])
             ELSE st2
        ELSE st1

_hostile_interaction(st, c, other, star_id) ==
    IF initiator_wins(st, c, other, star_id)
    THEN hostile_won(st, c, other, star_id)
    ELSE hostile_lost(st, c, other, star_id)

-----------------------------------------------------------------------------
(* Universe._log_statistics.                                               *)

RECURSIVE registered_population(_, _)
registered_population(st, ids) ==
    IF ids = <<>> THEN R(0)
    ELSE RAdd(get_total_population(st.civ[Head(ids)]),
              registered_population(st, Tail(ids)))

\* Variant of inhabited_stars that walks every civilization ever built,
\* removed ones included.
inhabited_stars_of_all(st) ==
    UNION {Range(VisitedKeys(st.civ[c])) : c \in DOMAIN st.civ}

inhabited_stars(st) ==
    UNION {Range(VisitedKeys(st.civ[c])) : c \in Range(st.civilizations)}

\* Variant of _log_statistics that adds up the civilizations' population
\* scalars instead of their colonies.
RECURSIVE registered_scalars(_, _)
registered_scalars(st, ids) ==
    IF ids = <<>> THEN R(0)
    ELSE RAdd(st.civ[Head(ids)].params.population,
              registered_scalars(st, Tail(ids)))

_log_statistics_from_scalars(st) ==
    universe_add_to_history(st, st.current_date, "statistics",
        [civilizations |-> Len(st.civilizations),
         total_population |-> registered_scalars(st, st.civilizations),
         inhabited_stars |-> Cardinality(inhabited_stars(st))])

_log_statistics(st) ==
    universe_add_to_history(st, st.current_date, "statistics",
        [civilizations |-> Len(st.civilizations),
         total_population |-> registered_population(st, st.civilizations),
         inhabited_stars |-> Cardinality(inhabited_stars(st))])

-----------------------------------------------------------------------------
(* The control flow of Universe.update and Civilization.update, one step   *)
(* per loop iteration.  Each step maps a program state to its successor.   *)

State ==
    [stars |-> stars, civ |-> civ, civilizations |-> civilizations,
     current_date |-> current_date, history |-> history, pc |-> pc,
     snapshot |-> snapshot, si |-> si, origins |-> origins, oi |-> oi,
     candidates |-> candidates, ci |-> ci, vi |-> vi, visitors |-> visitors,
     wi |-> wi, update_calls |-> update_calls, steps |-> steps,
     step |-> step, callbacks |-> callbacks]

SetRun(st) ==
    /\ stars' = st.stars
    /\ civ' = st.civ
    /\ civilizations' = st.civilizations
    /\ current_date' = st.current_date
    /\ history' = st.history
    /\ pc' = st.pc
    /\ snapshot' = st.snapshot
    /\ si' = st.si
    /\ origins' = st.origins
    /\ oi' = st.oi
    /\ candidates' = st.candidates
    /\ ci' = st.ci
    /\ vi' = st.vi
    /\ visitors' = st.visitors
    /\ wi' = st.wi
    /\ update_calls' = st.update_calls
    /\ steps' = st.steps
    /\ step' = st.step
    /\ callbacks' = st.callbacks

Set(st) == SetRun(st) /\ UNCHANGED twin

\* The civilization whose update is running, and the loop variables.
Self(st) == st.snapshot[st.si]
OriginStar(st) == st.origins[st.oi]
CandidateStar(st) == st.candidates[st.ci]
InteractionStar(st) == st.civ[Self(st)].visited_stars[st.vi].star
OtherCiv(st) == st.visitors[st.wi]

\* list(self.civilizations.values()): the orders the iteration can take.
\* Variant of registry_values for a registry without a defined iteration
\* order: any arrangement of the registered civilizations.
registry_values_unordered(st) ==
    {order \in [1..Len(st.civilizations) -> Range(st.civilizations)] :
        Range(order) = Range(st.civilizations)}

\* Variant of registry_values that walks the registry backwards.
registry_values_reversed(st) ==
    {[i \in 1..Len(st.civilizations) |->
         st.civilizations[Len(st.civilizations) + 1 - i]]}

registry_values(st) == {st.civilizations}

begin_tick(st, order) ==
    [st EXCEPT !.current_date = @ + 1, !.snapshot = order, !.si = 1,
               !.update_calls = <<>>, !.pc = "loop"]

call_update(st) ==
    [st EXCEPT !.update_calls = Append(@, Self(st)), !.pc = "population"]

end_tick(st) ==
    LET logged == IF st.current_date % StatisticsPeriod = 0
                  THEN _log_statistics(st) ELSE st
    IN  [logged EXCEPT !.snapshot = <<>>, !.si = 0, !.pc = "idle"]

\* run_simulation(steps, callback): the loop starts with no step done.
run_simulation(st, count) ==
    [st EXCEPT !.steps = count, !.step = 0, !.callbacks = <<>>]

\* What a callback handed the universe can read off it.
Observed(st) ==
    [current_date |-> st.current_date, civilizations |-> st.civilizations,
     events |-> Len(st.history)]

\* Variant of callback that is only invoked while civilizations remain.
callback_while_inhabited(st) ==
    IF st.civilizations = <<>> THEN st
    ELSE [st EXCEPT !.callbacks = Append(@, Observed(st))]

callback(st) == [st EXCEPT !.callbacks = Append(@, Observed(st))]

\* One iteration of run_simulation's loop ends: update has returned, the
\* callback is invoked, the loop counter advances.
end_step(st) == [callback(end_tick(st)) EXCEPT !.step = @ + 1]

population_phase(st) ==
    [_update_population(st, Self(st)) EXCEPT !.pc = "technology"]

\* Variant of technology_phase that moves on without advancing technology.
technology_phase_skipped(st) == [st EXCEPT !.pc = "expansion"]

technology_phase(st) ==
    [_update_technology(st, Self(st)) EXCEPT !.pc = "expansion"]

enter_interaction(st) ==
    [st EXCEPT !.origins = <<>>, !.oi = 0, !.candidates = <<>>, !.ci = 0,
               !.vi = 1, !.pc = "interaction"]

begin_expansion(st) ==
    IF ~expansion_ready(st, Self(st))
    THEN enter_interaction(st)
    ELSE [st EXCEPT !.origins = VisitedKeys(st.civ[Self(st)]), !.oi = 1,
                    !.pc = "origin"]

\* Variant of next_origin that rereads the visited stars before each origin.
next_origin_live(st) ==
    LET live == [st EXCEPT !.origins = VisitedKeys(st.civ[Self(st)])]
    IN  IF live.oi > Len(live.origins) THEN enter_interaction(live)
        ELSE IF ~HasStar(live, OriginStar(live))
        THEN [live EXCEPT !.oi = @ + 1]
        ELSE LET found == candidate_stars(live, Self(live), OriginStar(live))
             IN  IF found = <<>> THEN [live EXCEPT !.oi = @ + 1]
                 ELSE [live EXCEPT !.candidates = found, !.ci = 1,
                                   !.pc = "candidate"]

next_origin(st) ==
    IF st.oi > Len(st.origins) THEN enter_interaction(st)
    ELSE IF ~HasStar(st, OriginStar(st)) THEN [st EXCEPT !.oi = @ + 1]
    ELSE LET found == candidate_stars(st, Self(st), OriginStar(st))
         IN  IF found = <<>> THEN [st EXCEPT !.oi = @ + 1]
             ELSE [st EXCEPT !.candidates = found, !.ci = 1,
                             !.pc = "candidate"]

end_candidates(st) ==
    [st EXCEPT !.candidates = <<>>, !.ci = 0, !.oi = @ + 1, !.pc = "origin"]

\* random.random() < probability, for the draw r
expansion_succeeds(r, probability) == RLt(r, probability)

attempt_expansion(st, r) ==
    LET c == Self(st)
        origin_star == get_star(st, OriginStar(st))
        star == get_star(st, CandidateStar(st))
        settled == establish_colony(st, c, origin_star.id, star.id)
    IN  IF beyond_range(st.civ[c].params, origin_star, star)
        THEN [st EXCEPT !.ci = @ + 1]
        ELSE IF expansion_succeeds(r,
                    expansion_probability(st.civ[c].params, origin_star, star))
        THEN IF expansion_limit_reached(settled.civ[c])
             THEN enter_interaction(settled)
             ELSE [settled EXCEPT !.ci = @ + 1]
        ELSE [st EXCEPT !.ci = @ + 1]

end_update(st) ==
    [st EXCEPT !.vi = 0, !.si = @ + 1, !.pc = "loop"]

next_star(st) ==
    IF st.vi > Len(st.civ[Self(st)].visited_stars) THEN end_update(st)
    ELSE IF ~HasStar(st, InteractionStar(st)) THEN [st EXCEPT !.vi = @ + 1]
    ELSE LET others == other_visitors(st, Self(st), InteractionStar(st))
         IN  IF others = <<>> THEN [st EXCEPT !.vi = @ + 1]
             ELSE [st EXCEPT !.visitors = others, !.wi = 1, !.pc = "visitor"]

end_visitors(st) ==
    [st EXCEPT !.visitors = <<>>, !.wi = 0, !.vi = @ + 1,
               !.pc = "interaction"]

\* Variant of visitor_skipped that does not consult the registry.
visitor_skipped_colonies_only(st) ==
    ~both_established(st, Self(st), OtherCiv(st), InteractionStar(st))

\* get_civilization returned None, or one side holds no colony at the star
visitor_skipped(st) ==
    \/ ~IsRegistered(st, OtherCiv(st))
    \/ ~both_established(st, Self(st), OtherCiv(st), InteractionStar(st))

\* Variant of skip_visitor that records the encounter it passes over.
skip_visitor_logged(st) ==
    civ_add_to_history([st EXCEPT !.wi = @ + 1], Self(st), st.current_date,
                       "encounter", [civilization |-> OtherCiv(st)])

skip_visitor(st) == [st EXCEPT !.wi = @ + 1]

peaceful_step(st) ==
    [_peaceful_interaction(st, Self(st), OtherCiv(st), InteractionStar(st))
        EXCEPT !.wi = @ + 1]

hostile_step(st) ==
    [_hostile_interaction(st, Self(st), OtherCiv(st), InteractionStar(st))
        EXCEPT !.wi = @ + 1]

\* Which step the control flow takes next.
AtTickStart(st) == st.pc = "idle" /\ st.step < st.steps
AtCallUpdate(st) == st.pc = "loop" /\ st.si <= Len(st.snapshot)
AtEndTick(st) == st.pc = "loop" /\ st.si > Len(st.snapshot)
AtEndCandidates(st) == st.pc = "candidate" /\ st.ci > Len(st.candidates)
AtAttempt(st) == st.pc = "candidate" /\ st.ci <= Len(st.candidates)
AtEndVisitors(st) == st.pc = "visitor" /\ st.wi > Len(st.visitors)
AtVisitor(st) == st.pc = "visitor" /\ st.wi <= Len(st.visitors)
AtSkip(st) == AtVisitor(st) /\ visitor_skipped(st)
AtPeaceful(st) ==
    AtVisitor(st) /\ ~visitor_skipped(st) /\ is_peaceful(st.civ[Self(st)].params)
AtHostile(st) ==
    AtVisitor(st) /\ ~visitor_skipped(st) /\ ~is_peaceful(st.civ[Self(st)].params)

-----------------------------------------------------------------------------
(* Initial configurations: a star field and the civilizations founded on   *)
(* it at date 0, as the drivers (main.py, example.py) build them.          *)

StarField ==
    <<Star("star_0", 0, <<1, 2000>>, 1),
      Star("star_1", 50, <<1, 1000>>, 2),
      Star("star_2", 90, <<1, 1>>, 1)>>

Conquerors ==
    [name |-> "Conquerors", reproduction_rate |-> <<1, 100>>,
     individual_lifespan |-> R(100), expansion_rate |-> <<3, 50>>,
     expansion_range |-> R(90), cooperation_factor |-> <<1, 5>>,
     aggression_factor |-> <<4, 5>>, tech_level |-> R(1),
     tech_advancement_rate |-> R(0), motivation |-> "resource"]

Scholars ==
    [name |-> "Scholars", reproduction_rate |-> <<1, 100>>,
     individual_lifespan |-> R(100), expansion_rate |-> <<1, 2>>,
     expansion_range |-> R(80), cooperation_factor |-> <<4, 5>>,
     aggression_factor |-> <<1, 5>>, tech_level |-> <<1, 4>>,
     tech_advancement_rate |-> <<2, 3>>, motivation |-> "knowledge"]

Settlers ==
    [name |-> "Settlers", reproduction_rate |-> <<1, 100>>,
     individual_lifespan |-> R(100), expansion_rate |-> R(1),
     expansion_range |-> R(100), cooperation_factor |-> <<1, 2>>,
     aggression_factor |-> <<1, 2>>, tech_level |-> R(1),
     tech_advancement_rate |-> R(0), motivation |-> "expansion"]

Breeders ==
    [name |-> "Breeders", reproduction_rate |-> <<200001, 100>>,
     individual_lifespan |-> R(100), expansion_rate |-> <<1, 20>>,
     expansion_range |-> R(25), cooperation_factor |-> <<1, 10>>,
     aggression_factor |-> <<9, 10>>, tech_level |-> R(1),
     tech_advancement_rate |-> R(0), motivation |-> "seeding"]

\* Equal technology, aggression 0.9 against 0.1, neither cooperative enough
\* to be peaceful, and no star within their range.
Hawks ==
    [name |-> "Hawks", reproduction_rate |-> <<1, 100>>,
     individual_lifespan |-> R(100), expansion_rate |-> <<1, 20>>,
     expansion_range |-> R(25), cooperation_factor |-> <<1, 10>>,
     aggression_factor |-> <<9, 10>>, tech_level |-> R(1),
     tech_advancement_rate |-> R(0), motivation |-> "expansion"]

Doves ==
    [name |-> "Doves", reproduction_rate |-> <<1, 100>>,
     individual_lifespan |-> R(100), expansion_rate |-> <<1, 20>>,
     expansion_range |-> R(25), cooperation_factor |-> <<1, 10>>,
     aggression_factor |-> <<1, 10>>, tech_level |-> R(1),
     tech_advancement_rate |-> R(0), motivation |-> "expansion"]

\* Aggression outside [0, 1]: a configuration the constructor is handed
\* like any other.
Zealots ==
    [name |-> "Zealots", reproduction_rate |-> <<1, 100>>,
     individual_lifespan |-> R(100), expansion_rate |-> <<1, 20>>,
     expansion_range |-> R(25), cooperation_factor |-> <<1, 10>>,
     aggression_factor |-> <<3, 2>>, tech_level |-> R(1),
     tech_advancement_rate |-> R(0), motivation |-> "expansion"]

\* A fast expander for the dense star field.
Swarm ==
    [name |-> "Swarm", reproduction_rate |-> <<1, 100>>,
     individual_lifespan |-> R(100), expansion_rate |-> R(10),
     expansion_range |-> R(100), cooperation_factor |-> <<1, 2>>,
     aggression_factor |-> <<1, 2>>, tech_level |-> R(1),
     tech_advancement_rate |-> R(0), motivation |-> "expansion"]

\* Eleven stars: three within reach of star_0, seven more within reach of
\* star_1 only.
Cluster ==
    <<Star("star_0", 0, R(1), 1),
      Star("star_1", 70, R(1), 1),
      Star("star_2", 75, R(1), 1),
      Star("star_3", 80, <<1, 10>>, 1),
      Star("star_4", 101, R(1), 1),
      Star("star_5", 102, R(1), 1),
      Star("star_6", 103, R(1), 1),
      Star("star_7", 104, R(1), 1),
      Star("star_8", 105, R(1), 1),
      Star("star_9", 106, <<1, 20>>, 1),
      Star("star_10", 107, R(1), 1)>>

Founder(preset, origin_star, population) ==
    [preset |-> preset, origin_star |-> origin_star,
     population |-> population, founding_date |-> 0]

\* A civilization whose parameters give a founding date after the start.
FoundedLater(founder, founding_date) ==
    [founder EXCEPT !.founding_date = founding_date]

Founders ==
    {Founder(Conquerors, "star_0", 1024000),
     Founder(Scholars, "star_0", 102400),
     Founder(Settlers, "star_0", 320),
     Founder(Settlers, "star_1", 1024000),
     Founder(Breeders, "star_0", 400000)}

Duels ==
    {<<Founder(Hawks, "star_0", 1000), Founder(Doves, "star_0", 1000)>>,
     <<Founder(Doves, "star_0", 1000), Founder(Hawks, "star_0", 1000)>>,
     <<Founder(Hawks, "star_0", 0), Founder(Doves, "star_0", 0)>>,
     <<Founder(Doves, "star_0", 0), Founder(Hawks, "star_0", 0)>>}

Latecomers ==
    {<<FoundedLater(Founder(Settlers, "star_1", 1024000), 1),
       Founder(Settlers, "star_0", 320)>>}

Misconfigured ==
    {<<Founder(Zealots, "star_0", 1000), Founder(Doves, "star_0", 1000)>>}

\* On the rich star_2 a strong civilization halves a weaker hostile one
\* twice a tick, down to 100 in its own turn of tick 10.
Remnants ==
    {<<Founder(Settlers, "star_2", 100000000),
       Founder(Settlers, "star_2", 52428800)>>}

Scenarios ==
    {<<a, b>> : a \in Founders, b \in Founders}
        \cup Duels \cup Latecomers \cup Misconfigured \cup Remnants

\* What a driver hands to the universe: the star count, the stars the
\* generator draws, and the civilizations it founds.
Setups ==
    {[count |-> 3, drawn |-> StarField, founders |-> s, steps |-> MaxDate] :
        s \in Scenarios}
        \cup {[count |-> 11, drawn |-> Cluster,
                founders |-> <<Founder(Swarm, "star_0", 1000000)>>,
                steps |-> MaxDate],
               [count |-> 0, drawn |-> StarField, founders |-> <<>>,
                steps |-> MaxDate]}
        \cup {[count |-> 3, drawn |-> StarField, founders |-> s,
                steps |-> n] : s \in Misconfigured, n \in {0, 2}}

\* random.random() returns a value in [0, 1)
Draws == {<<0, 1>>, <<1, 2>>, <<99, 100>>}

CivId(k) == IF k = 1 THEN "civ_1" ELSE IF k = 2 THEN "civ_2" ELSE "civ_3"

CivilizationParams(id, founder) ==
    [id |-> id, name |-> founder.preset.name,
     origin_star |-> founder.origin_star,
     population |-> R(founder.population),
     reproduction_rate |-> founder.preset.reproduction_rate,
     individual_lifespan |-> founder.preset.individual_lifespan,
     expansion_rate |-> founder.preset.expansion_rate,
     expansion_range |-> founder.preset.expansion_range,
     cooperation_factor |-> founder.preset.cooperation_factor,
     aggression_factor |-> founder.preset.aggression_factor,
     founding_date |-> founder.founding_date,
     tech_level |-> founder.preset.tech_level,
     tech_advancement_rate |-> founder.preset.tech_advancement_rate,
     motivation |-> founder.preset.motivation]

NewUniverse ==
    [stars |-> <<>>, civ |-> <<>>, civilizations |-> <<>>,
     current_date |-> 0, history |-> <<>>, pc |-> "idle",
     snapshot |-> <<>>, si |-> 0, origins |-> <<>>, oi |-> 0,
     candidates |-> <<>>, ci |-> 0, vi |-> 0, visitors |-> <<>>, wi |-> 0,
     update_calls |-> <<>>, steps |-> 0, step |-> 0, callbacks |-> <<>>]

\* range(count) is empty for count <= 0
initialize_stars(st, count, drawn) ==
    [st EXCEPT !.stars =
        IF count <= 0 THEN @
        ELSE @ \o SubSeq(drawn, 1, count)]

RECURSIVE Founded(_, _)
Founded(setup, k) ==
    IF k = 0 THEN initialize_stars(NewUniverse, setup.count, setup.drawn)
    ELSE LET params == CivilizationParams(CivId(k), setup.founders[k])
         IN  add_civilization(
                 civilization_init(Founded(setup, k - 1), params),
                 params.id)

InitFrom(setups) ==
    \E setup \in setups :
        LET st == run_simulation(Founded(setup, Len(setup.founders)),
                                 setup.steps)
        IN  /\ stars = st.stars
            /\ civ = st.civ
            /\ civilizations = st.civilizations
            /\ current_date = st.current_date
            /\ history = st.history
            /\ pc = st.pc
            /\ snapshot = st.snapshot
            /\ si = st.si
            /\ origins = st.origins
            /\ oi = st.oi
            /\ candidates = st.candidates
            /\ ci = st.ci
            /\ vi = st.vi
            /\ visitors = st.visitors
            /\ wi = st.wi
            /\ update_calls = st.update_calls
            /\ steps = st.steps
            /\ step = st.step
            /\ callbacks = st.callbacks
            /\ twin = st

Init == InitFrom(Setups)

-----------------------------------------------------------------------------
(* Actions.                                                                *)

BeginTick ==
    /\ AtTickStart(State)
    /\ \E order \in registry_values(State) : Set(begin_tick(State, order))

CallUpdate == AtCallUpdate(State) /\ Set(call_update(State))

EndTick == AtEndTick(State) /\ Set(end_step(State))

UpdatePopulation == pc = "population" /\ Set(population_phase(State))

UpdateTechnology == pc = "technology" /\ Set(technology_phase(State))

BeginExpansion == pc = "expansion" /\ Set(begin_expansion(State))

NextOrigin == pc = "origin" /\ Set(next_origin(State))

EndCandidates == AtEndCandidates(State) /\ Set(end_candidates(State))

AttemptExpansion ==
    /\ AtAttempt(State)
    /\ \E r \in Draws : Set(attempt_expansion(State, r))

NextStar == pc = "interaction" /\ Set(next_star(State))

EndVisitors == AtEndVisitors(State) /\ Set(end_visitors(State))

SkipVisitor == AtSkip(State) /\ Set(skip_visitor(State))

PeacefulInteraction == AtPeaceful(State) /\ Set(peaceful_step(State))

HostileInteraction == AtHostile(State) /\ Set(hostile_step(State))

Next ==
    \/ BeginTick
    \/ CallUpdate
    \/ EndTick
    \/ UpdatePopulation
    \/ UpdateTechnology
    \/ BeginExpansion
    \/ NextOrigin
    \/ EndCandidates
    \/ AttemptExpansion
    \/ NextStar
    \/ EndVisitors
    \/ SkipVisitor
    \/ PeacefulInteraction
    \/ HostileInteraction

Spec == Init /\ [][Next]_vars

-----------------------------------------------------------------------------
(* Two runs side by side: the run of the variables and a second run kept   *)
(* in twin. Both start from the same stars, civilizations and insertion    *)
(* order, take the same step at the same time and are fed the same draw.   *)

TwinBeginTick ==
    /\ AtTickStart(State) /\ AtTickStart(twin)
    /\ \E order \in registry_values(State) :
          SetRun(begin_tick(State, order))
    /\ \E order \in registry_values(twin) :
          twin' = begin_tick(twin, order)

TwinCallUpdate ==
    /\ AtCallUpdate(State) /\ AtCallUpdate(twin)
    /\ SetRun(call_update(State))
    /\ twin' = call_update(twin)

TwinEndTick ==
    /\ AtEndTick(State) /\ AtEndTick(twin)
    /\ SetRun(end_step(State))
    /\ twin' = end_step(twin)

TwinUpdatePopulation ==
    /\ State.pc = "population" /\ twin.pc = "population"
    /\ SetRun(population_phase(State))
    /\ twin' = population_phase(twin)

TwinUpdateTechnology ==
    /\ State.pc = "technology" /\ twin.pc = "technology"
    /\ SetRun(technology_phase(State))
    /\ twin' = technology_phase(twin)

TwinBeginExpansion ==
    /\ State.pc = "expansion" /\ twin.pc = "expansion"
    /\ SetRun(begin_expansion(State))
    /\ twin' = begin_expansion(twin)

TwinNextOrigin ==
    /\ State.pc = "origin" /\ twin.pc = "origin"
    /\ SetRun(next_origin(State))
    /\ twin' = next_origin(twin)

TwinEndCandidates ==
    /\ AtEndCandidates(State) /\ AtEndCandidates(twin)
    /\ SetRun(end_candidates(State))
    /\ twin' = end_candidates(twin)

TwinAttemptExpansion ==
    /\ AtAttempt(State) /\ AtAttempt(twin)
    /\ \E r \in Draws :
          /\ SetRun(attempt_expansion(State, r))
          /\ twin' = attempt_expansion(twin, r)

TwinNextStar ==
    /\ State.pc = "interaction" /\ twin.pc = "interaction"
    /\ SetRun(next_star(State))
    /\ twin' = next_star(twin)

TwinEndVisitors ==
    /\ AtEndVisitors(State) /\ AtEndVisitors(twin)
    /\ SetRun(end_visitors(State))
    /\ twin' = end_visitors(twin)

TwinSkipVisitor ==
    /\ AtSkip(State) /\ AtSkip(twin)
    /\ SetRun(skip_visitor(State))
    /\ twin' = skip_visitor(twin)

TwinPeacefulInteraction ==
    /\ AtPeaceful(State) /\ AtPeaceful(twin)
    /\ SetRun(peaceful_step(State))
    /\ twin' = peaceful_step(twin)

TwinHostileInteraction ==
    /\ AtHostile(State) /\ AtHostile(twin)
    /\ SetRun(hostile_step(State))
    /\ twin' = hostile_step(twin)

NextTwin ==
    \/ TwinBeginTick
    \/ TwinCallUpdate
    \/ TwinEndTick
    \/ TwinUpdatePopulation
    \/ TwinUpdateTechnology
    \/ TwinBeginExpansion
    \/ TwinNextOrigin
    \/ TwinEndCandidates
    \/ TwinAttemptExpansion
    \/ TwinNextStar
    \/ TwinEndVisitors
    \/ TwinSkipVisitor
    \/ TwinPeacefulInteraction
    \/ TwinHostileInteraction

\* run_simulation is a sequential loop: the one step that is enabled is the
\* statement the interpreter executes next, so every step is weakly fair.
\* Each step changes pc, step or a cursor, so a step is enabled exactly when
\* its guard holds; for the steps that run a whole phase the enabling
\* condition is written as that guard.
Fairness ==
    /\ WF_vars(BeginTick)
    /\ WF_vars(CallUpdate)
    /\ WF_vars(BeginExpansion)
    /\ WF_vars(NextOrigin)
    /\ WF_vars(EndCandidates)
    /\ WF_vars(NextStar)
    /\ WF_vars(EndVisitors)
    /\ WF_vars(SkipVisitor)
    /\ (<>[]AtEndTick(State) => []<><<EndTick>>_vars)
    /\ (<>[](pc = "population") => []<><<UpdatePopulation>>_vars)
    /\ (<>[](pc = "technology") => []<><<UpdateTechnology>>_vars)
    /\ (<>[]AtAttempt(State) => []<><<AttemptExpansion>>_vars)
    /\ (<>[]AtPeaceful(State) => []<><<PeacefulInteraction>>_vars)
    /\ (<>[]AtHostile(State) => []<><<HostileInteraction>>_vars)

SpecLive == Init /\ [][Next]_vars /\ Fairness

SpecTwin == Init /\ [][NextTwin]_vars

-----------------------------------------------------------------------------
(* Observations used by the properties.                                    *)

CivIds == DOMAIN civ

Last(s) == s[Len(s)]

IsPrefix(s, t) == Len(s) <= Len(t) /\ \A i \in 1..Len(s) : s[i] = t[i]

LocalPopulation(objects, c, star_id) == ColGet(objects[c].colonies, star_id)

\* The events of kind `kind` about civilization c in Universe.history.
UniverseEvents(kind, c) ==
    {i \in 1..Len(history) : history[i].event = kind /\ history[i].data.id = c}

\* c was removed from the registry, and in which tick.
Extinct(c) == UniverseEvents("civilization_extinct", c) # {}
ExtinctionDate(c) ==
    history[CHOOSE i \in UniverseEvents("civilization_extinct", c) : TRUE].date

\* The ids in the order add_civilization registered them.
InsertionOrder ==
    LET added == SelectSeq(history, LAMBDA e : e.event = "new_civilization")
    IN  [i \in 1..Len(added) |-> added[i].data.id]

\* The registry as it was when the running tick started: what is registered
\* now, and what this tick removed.
RegistryAtTickStart ==
    SelectSeq(InsertionOrder,
              LAMBDA c : c \in Range(civilizations)
                         \/ (Extinct(c) /\ ExtinctionDate(c) = current_date))

InUpdate == pc \notin {"idle", "loop"}

\* The events a step appended to the history of civilization c.
NewEvents(c) == SubSeq(civ'[c].history, Len(civ[c].history) + 1,
                       Len(civ'[c].history))

HasNewEvent(c, kind) ==
    \E i \in 1..Len(NewEvents(c)) : NewEvents(c)[i].event = kind

\* The hostile interaction the last step resolved: the running civilization
\* fought visitors[wi - 1] at the star of the interaction phase.
FoughtEvent(e) ==
    /\ e.event \in {"conflict_won", "conflict_lost"}
    /\ e.date = current_date
    /\ e.data.against_civilization = visitors[wi - 1]
    /\ e.data.at_star = InteractionStar(State)

HostileResolved ==
    /\ pc = "visitor" /\ wi > 1
    /\ \E i \in 1..Len(civ[Self(State)].history) :
           FoughtEvent(civ[Self(State)].history[i])

-----------------------------------------------------------------------------
(* C1: between ticks, for every civilization, the sum of the values of its *)
(* colonies map equals its population scalar params.population.            *)
(* The code refreshes the scalar only in _update_population, so it is      *)
(* stale after every hostile interaction that moved population.            *)
C1_PopulationScalarIsColonySum ==
    pc = "idle" =>
        \A c \in CivIds :
            get_total_population(civ[c]) = civ[c].params.population

(* C2: a civilization is registered exactly when its colonies map is not   *)
(* empty: registered civilizations hold a colony, removed ones hold none.  *)
(* A civilization removed by an earlier civilization of the same tick      *)
(* still runs its expansion phase, which writes colony entries again.      *)
C2_RegisteredIffColonies ==
    \A c \in CivIds :
        (c \in Range(civilizations)) <=> (DOMAIN civ[c].colonies # {})

-----------------------------------------------------------------------------
(* The two sides of the hostile interaction a step resolves, read off the  *)
(* event the initiator logs.                                               *)

Initiator == Self(State)
Opponent == OtherCiv(State)
Battlefield == InteractionStar(State)
InitiatorWon == HasNewEvent(Initiator, "conflict_won")
Winner == IF InitiatorWon THEN Initiator ELSE Opponent
Loser == IF InitiatorWon THEN Opponent ELSE Initiator
LocalSumBefore ==
    RAdd(LocalPopulation(civ, Initiator, Battlefield),
         LocalPopulation(civ, Opponent, Battlefield))
LocalSumAfter ==
    RAdd(LocalPopulation(civ', Initiator, Battlefield),
         LocalPopulation(civ', Opponent, Battlefield))
LoserBefore == LocalPopulation(civ, Loser, Battlefield)
LoserColonyKept == Battlefield \in DOMAIN civ'[Loser].colonies

(* C3 as claimed: every hostile interaction, once fully resolved (colony   *)
(* removal included, a removed colony counting 0), leaves the sum of the   *)
(* two local populations at the star unchanged.                            *)
C3_LocalSumConserved ==
    [][AtHostile(State) => LocalSumAfter = LocalSumBefore]_vars

(* C3 amended: the sum is unchanged when the loser's colony survives; when *)
(* the colony is removed, the loser's remaining half - at most 100 - is    *)
(* dropped with it, and the sum falls by exactly that remainder.           *)
C3_LocalSumConservedUnlessRemoved ==
    [][AtHostile(State) =>
          IF LoserColonyKept
          THEN LocalSumAfter = LocalSumBefore
          ELSE /\ LocalSumAfter
                    = RSub(LocalSumBefore, RMul(LoserBefore, <<1, 2>>))
               /\ RLe(RMul(LoserBefore, <<1, 2>>), R(100))]_vars

\* A conflict was won, the loser kept a positive remainder, and lost the colony.
C3_Witness ==
    /\ HostileResolved
    /\ \E i \in 1..Len(civ[Self(State)].history) :
          LET e == civ[Self(State)].history[i]
          IN  /\ FoughtEvent(e)
              /\ e.event = "conflict_won"
              /\ RGt(e.data.captured_population, R(0))
              /\ InteractionStar(State)
                    \notin DOMAIN civ[visitors[wi - 1]].colonies

(* C4: in every hostile interaction the winner's local population grows by *)
(* exactly half of the loser's local population as it was before, the      *)
(* loser's entry (when kept) shrinks by the same amount, and that amount   *)
(* is what the initiator's conflict_won / conflict_lost event records.     *)
C4_HalfOfLoserMoves ==
    [][AtHostile(State) =>
          LET amount == RMul(LoserBefore, <<1, 2>>)
              logged == NewEvents(Initiator)[1]
          IN  /\ Len(NewEvents(Initiator)) >= 1
              /\ logged.event \in {"conflict_won", "conflict_lost"}
              /\ logged.date = current_date
              /\ LocalPopulation(civ', Winner, Battlefield)
                    = RAdd(LocalPopulation(civ, Winner, Battlefield), amount)
              /\ LoserColonyKept =>
                    civ'[Loser].colonies[Battlefield]
                        = RSub(LoserBefore, amount)
              /\ logged.event = "conflict_won" =>
                    logged.data.captured_population = amount
              /\ logged.event = "conflict_lost" =>
                    logged.data.lost_population = amount]_vars

\* The initiator lost a conflict and logged the positive amount it lost.
C4_Witness ==
    /\ HostileResolved
    /\ \E i \in 1..Len(civ[Self(State)].history) :
          LET e == civ[Self(State)].history[i]
          IN  /\ FoughtEvent(e)
              /\ e.event = "conflict_lost"
              /\ RGt(e.data.lost_population, R(0))

(* C5: extinction is terminal and singular - the universe logs at most one *)
(* civilization_extinct event per id, a civilization whose colonies are    *)
(* empty or whose extinction is logged is not in the registry, and an      *)
(* update call runs on an extinct civilization only within the tick of its *)
(* removal.                                                                *)
C5_ExtinctionTerminal ==
    \A c \in CivIds :
        /\ Cardinality(UniverseEvents("civilization_extinct", c)) <= 1
        /\ Cardinality({i \in 1..Len(civilizations) : civilizations[i] = c})
              <= 1
        /\ DOMAIN civ[c].colonies = {} => c \notin Range(civilizations)
        /\ Extinct(c) => c \notin Range(civilizations)
        /\ \A i \in 1..Len(update_calls) :
              (update_calls[i] = c /\ Extinct(c)) =>
                  ExtinctionDate(c) = current_date

\* A later tick is updating the survivor of an earlier extinction.
C5_Witness ==
    /\ InUpdate
    /\ Self(State) \in Range(civilizations)
    /\ \E c \in CivIds :
          /\ Extinct(c)
          /\ ExtinctionDate(c) < current_date
          /\ DOMAIN civ[c].colonies = {}
          /\ c \notin Range(update_calls)

(* C6 as claimed: whenever a hostile interaction leaves the loser with no  *)
(* colonies, the loser leaves the registry, the loser's own history gains  *)
(* an "extinction" event and the winner's history gains an                 *)
(* "extinction_caused" event, whichever side initiated.                    *)
C6_BothSidesLogExtinction ==
    [][(AtHostile(State) /\ DOMAIN civ'[Loser].colonies = {}) =>
          /\ Loser \notin Range(civilizations')
          /\ HasNewEvent(Loser, "extinction")
          /\ HasNewEvent(Winner, "extinction_caused")]_vars

(* C7: a tick advances current_date by exactly one, and only at its start; *)
(* the update calls made so far in a tick are the civilizations registered *)
(* at its start, each once, in insertion order, and when the tick's loop   *)
(* ends every one of them has been called, removals notwithstanding.       *)
C7_CallsFollowSnapshot ==
    /\ pc # "idle" => IsPrefix(update_calls, RegistryAtTickStart)
    /\ InUpdate => Last(update_calls) = Self(State)
    /\ AtEndTick(State) => update_calls = RegistryAtTickStart

C7_DateStepsByOne ==
    current_date' = IF AtTickStart(State) THEN current_date + 1
                    ELSE current_date

\* C7: the update calls of a tick follow the registry as it stood at the
\* start of the tick, and the date advances by one at the start of a tick only.
C7_StableSnapshot == [](C7_CallsFollowSnapshot) /\ [][C7_DateStepsByOne]_vars

\* The second civilization was removed by the first one's conflict and was
\* still called in that tick.
C7_Witness ==
    /\ AtEndTick(State)
    /\ Len(update_calls) = 2
    /\ update_calls[1] \in Range(civilizations)
    /\ update_calls[2] \notin Range(civilizations)
    /\ \E i \in 1..Len(civ[update_calls[1]].history) :
          LET e == civ[update_calls[1]].history[i]
          IN  /\ e.event = "extinction_caused"
              /\ e.date = current_date
              /\ e.data.civilization = update_calls[2]

(* C8: right after the population phase of an update, every colony of the  *)
(* civilization holds at most resources x 1e9 x planets of its star.       *)
C8_ColoniesWithinCapacity ==
    pc = "technology" =>
        \A s \in DOMAIN civ[Self(State)].colonies :
            LET star == get_star(State, s)
            IN  RLe(civ[Self(State)].colonies[s],
                    RMul(RMul(star.resources, R(1000000000)),
                         R(star.planets)))

\* The colony gained population in a conflict of the previous tick and the
\* population phase has brought it back to the capacity of its star.
C8_Witness ==
    /\ pc = "technology"
    /\ \E i \in 1..Len(civ[Self(State)].history) :
          LET e == civ[Self(State)].history[i]
              star == get_star(State, e.data.at_star)
          IN  /\ e.event = "conflict_won"
              /\ e.date = current_date - 1
              /\ RGt(e.data.captured_population, R(0))
              /\ e.data.at_star \in DOMAIN civ[Self(State)].colonies
              /\ civ[Self(State)].colonies[e.data.at_star]
                    = RMul(RMul(star.resources, R(1000000000)),
                           R(star.planets))

(* C9: for every civilization each step leaves the existing entries of     *)
(* visited_stars (star and first-visit date) in place and can only append  *)
(* to them, and every expansion attempt is aimed at a star that is not yet *)
(* a key of visited_stars, whichever origin the attempt starts from.       *)
C9_TargetsUnvisited ==
    AtAttempt(State) => ~HasVisited(civ[Self(State)], CandidateStar(State))

C9_VisitedOnlyAppended ==
    \A c \in CivIds : IsPrefix(civ[c].visited_stars, civ'[c].visited_stars)

\* C9: visited_stars is only ever appended to, and every expansion attempt
\* targets a star that is not yet one of its keys.
C9_VisitedGrowOnly ==
    [](C9_TargetsUnvisited) /\ [][C9_VisitedOnlyAppended]_vars

\* A civilization with two origin stars colonised, from the first of them
\* and in this tick, a star that is also in range of the second, and has
\* finished its pass over both origins.
C9_Witness ==
    /\ pc = "origin"
    /\ Len(origins) = 2
    /\ oi = 3
    /\ \E i \in 1..Len(civ[Self(State)].visited_stars) :
          LET v == civ[Self(State)].visited_stars[i]
              distance == Abs(get_star(State, v.star).position
                              - get_star(State, origins[2]).position)
          IN  /\ v.date = current_date
              /\ v.star \notin Range(origins)
              /\ distance > 0
              /\ RLe(R(distance),
                     RMul(civ[Self(State)].params.expansion_range,
                          civ[Self(State)].params.tech_level))

StrengthBefore(c) ==
    RMul(RMul(LocalPopulation(civ, c, Battlefield), civ[c].params.tech_level),
         civ[c].params.aggression_factor)

(* C11: when both sides of a hostile interaction have the same effective   *)
(* strength (zero included), the initiator takes the loser path: it logs   *)
(* conflict_lost with half of its own local population, that half moves to *)
(* the other side, and the other side's local population does not shrink.  *)
C11_TieInitiatorLoses ==
    [][(AtHostile(State) /\ StrengthBefore(Initiator) = StrengthBefore(Opponent))
          =>
          LET half == RMul(LocalPopulation(civ, Initiator, Battlefield),
                           <<1, 2>>)
              logged == NewEvents(Initiator)[1]
          IN  /\ Len(NewEvents(Initiator)) >= 1
              /\ logged.event = "conflict_lost"
              /\ logged.data.lost_population = half
              /\ logged.data.against_civilization = Opponent
              /\ LocalPopulation(civ', Opponent, Battlefield)
                    = RAdd(LocalPopulation(civ, Opponent, Battlefield), half)
              /\ Battlefield \in DOMAIN civ'[Opponent].colonies
              /\ Battlefield \in DOMAIN civ'[Initiator].colonies =>
                    civ'[Initiator].colonies[Battlefield]
                        = RSub(LocalPopulation(civ, Initiator, Battlefield),
                               half)]_vars

\* The initiator has just lost a positive half of its population in a
\* conflict whose two sides had the same effective strength: its own
\* population before was twice the loss, the other side's was what it holds
\* now less the loss.
C11_Witness ==
    /\ HostileResolved
    /\ \E i \in 1..Len(civ[Self(State)].history) :
          LET e == civ[Self(State)].history[i]
              me == civ[Self(State)].params
              them == civ[visitors[wi - 1]]
              lost == e.data.lost_population
          IN  /\ FoughtEvent(e)
              /\ e.event = "conflict_lost"
              /\ RGt(lost, R(0))
              /\ RMul(RMul(RMul(lost, R(2)), me.tech_level),
                      me.aggression_factor)
                 = RMul(RMul(RSub(ColGet(them.colonies,
                                         InteractionStar(State)), lost),
                             them.params.tech_level),
                        them.params.aggression_factor)

(* C12: in a peaceful interaction with a strictly more advanced            *)
(* civilization the initiator's tech_level grows by exactly                *)
(* (their tech - our tech) x the initiator's cooperation_factor x 0.1,     *)
(* which is positive, one tech_exchange event carrying that boost is       *)
(* appended to the initiator's history and the other civilization is left  *)
(* as it was; otherwise the interaction changes and logs nothing.          *)
C12_PeacefulExchange ==
    [][AtPeaceful(State) =>
          LET ours == civ[Initiator].params.tech_level
              theirs == civ[Opponent].params.tech_level
              boost == RMul(RMul(RSub(theirs, ours),
                                 civ[Initiator].params.cooperation_factor),
                            <<1, 10>>)
          IN  IF RGt(theirs, ours)
              THEN /\ RGt(boost, R(0))
                   /\ civ'[Initiator].params.tech_level = RAdd(ours, boost)
                   /\ civ'[Initiator].colonies = civ[Initiator].colonies
                   /\ Len(NewEvents(Initiator)) = 1
                   /\ NewEvents(Initiator)[1].event = "tech_exchange"
                   /\ NewEvents(Initiator)[1].date = current_date
                   /\ NewEvents(Initiator)[1].data.tech_boost = boost
                   /\ NewEvents(Initiator)[1].data.with_civilization
                         = Opponent
                   /\ NewEvents(Initiator)[1].data.at_star = Battlefield
                   /\ civ'[Opponent] = civ[Opponent]
                   /\ history' = history
              ELSE /\ civ' = civ
                   /\ history' = history
                   /\ stars' = stars
                   /\ civilizations' = civilizations]_vars

\* A peaceful civilization that learned from its neighbour in an earlier
\* tick has just met it again, now without anything to learn: its last event
\* is still the earlier exchange.
C12_Witness ==
    /\ pc = "visitor" /\ wi > 1
    /\ RGt(civ[Self(State)].params.cooperation_factor,
           civ[Self(State)].params.aggression_factor)
    /\ visitors[wi - 1] \in Range(civilizations)
    /\ InteractionStar(State) \in DOMAIN civ[Self(State)].colonies
    /\ InteractionStar(State) \in DOMAIN civ[visitors[wi - 1]].colonies
    /\ ~RGt(civ[visitors[wi - 1]].params.tech_level,
            civ[Self(State)].params.tech_level)
    /\ LET e == Last(civ[Self(State)].history)
       IN  /\ e.event = "tech_exchange"
           /\ e.date < current_date
           /\ e.data.with_civilization = visitors[wi - 1]
           /\ RGt(e.data.tech_boost, R(0))

\* A hostile interaction between two sides of equal technology and equal
\* local population whose aggression factors are 0.9 and 0.1.
EqualDuel ==
    /\ AtHostile(State)
    /\ civ[Initiator].params.tech_level = civ[Opponent].params.tech_level
    /\ LocalPopulation(civ, Initiator, Battlefield)
          = LocalPopulation(civ, Opponent, Battlefield)
    /\ {civ[Initiator].params.aggression_factor,
        civ[Opponent].params.aggression_factor} = {<<9, 10>>, <<1, 10>>}

\* The 0.9 side wins and takes half of the other side's local population.
HigherAggressionWins ==
    LET strong == IF civ[Initiator].params.aggression_factor = <<9, 10>>
                  THEN Initiator ELSE Opponent
        weak == IF strong = Initiator THEN Opponent ELSE Initiator
        half == RMul(LocalPopulation(civ, weak, Battlefield), <<1, 2>>)
        logged == NewEvents(Initiator)[1]
    IN  /\ Len(NewEvents(Initiator)) >= 1
        /\ logged.event = IF strong = Initiator THEN "conflict_won"
                          ELSE "conflict_lost"
        /\ logged.event = "conflict_won" =>
              logged.data.captured_population = half
        /\ logged.event = "conflict_lost" =>
              logged.data.lost_population = half
        /\ LocalPopulation(civ', strong, Battlefield)
              = RAdd(LocalPopulation(civ, strong, Battlefield), half)
        /\ LocalPopulation(civ', weak, Battlefield)
              = IF Battlefield \in DOMAIN civ'[weak].colonies
                THEN RSub(LocalPopulation(civ, weak, Battlefield), half)
                ELSE R(0)

(* C13 as claimed: between two civilizations of equal tech level and equal *)
(* local population at a shared star, with aggression factors 0.9 and 0.1, *)
(* every hostile interaction is won by the 0.9 side, whichever initiates,  *)
(* and it captures exactly half of the other side's local population.      *)
C13_HigherAggressionAlwaysWins == [][EqualDuel => HigherAggressionWins]_vars

(* C13 amended: the same, for a positive tech level and a positive local   *)
(* population; with either of them zero both strengths are zero, the       *)
(* interaction is a tie and the initiator takes the loser path.            *)
C13_HigherAggressionWinsWhenPositive ==
    [][(/\ EqualDuel
        /\ RGt(civ[Initiator].params.tech_level, R(0))
        /\ RGt(LocalPopulation(civ, Initiator, Battlefield), R(0)))
          => HigherAggressionWins]_vars

\* The 0.1 side initiated against the 0.9 side at equal technology and
\* equal positive population (its own was twice what it lost, the other's
\* what it holds now less that) and lost half of its population.
C13_Witness ==
    /\ HostileResolved
    /\ civ[Self(State)].params.aggression_factor = <<1, 10>>
    /\ civ[visitors[wi - 1]].params.aggression_factor = <<9, 10>>
    /\ civ[Self(State)].params.tech_level
          = civ[visitors[wi - 1]].params.tech_level
    /\ \E i \in 1..Len(civ[Self(State)].history) :
          LET e == civ[Self(State)].history[i]
          IN  /\ FoughtEvent(e)
              /\ e.event = "conflict_lost"
              /\ RGt(e.data.lost_population, R(0))
              /\ RMul(e.data.lost_population, R(2))
                    = RSub(ColGet(civ[visitors[wi - 1]].colonies,
                                  InteractionStar(State)),
                           e.data.lost_population)

TooYoung(c) == current_date - civ[c].params.founding_date < 10

C14_NoEarlyAttempt ==
    /\ (InUpdate /\ pc \in {"origin", "candidate"}) => ~TooYoung(Self(State))
    /\ \A c \in CivIds :
          /\ \A i \in 1..Len(civ[c].history) :
                civ[c].history[i].event = "expansion" =>
                    civ[c].history[i].date
                        >= civ[c].params.founding_date + 10
          /\ \A i \in 1..Len(civ[c].visited_stars) :
                civ[c].visited_stars[i].star # civ[c].params.origin_star =>
                    civ[c].visited_stars[i].date
                        >= civ[c].params.founding_date + 10

C14_EarlyPhaseSkipped ==
    (pc = "expansion" /\ TooYoung(Self(State))) =>
        /\ civ' = civ
        /\ stars' = stars
        /\ history' = history
        /\ pc' = "interaction"

(* C14: a civilization younger than 10 ticks does not expand - its         *)
(* expansion phase is left at once, changing no civilization or star and   *)
(* logging nothing, no expansion attempt (and so no draw) is made for it,  *)
(* and every expansion event and every visit beyond the origin star is     *)
(* dated founding_date + 10 or later.                                      *)
C14_NoExpansionBeforeTen ==
    [](C14_NoEarlyAttempt) /\ [][C14_EarlyPhaseSkipped]_vars

\* A civilization founded at date 1 makes an expansion attempt at date 11.
C14_Witness ==
    /\ AtAttempt(State)
    /\ civ[Self(State)].params.founding_date = 1
    /\ current_date = civ[Self(State)].params.founding_date + 10

StatisticsEvents == {i \in 1..Len(history) : history[i].event = "statistics"}

ColonySum(c) == RSum(civ[c].colonies, DOMAIN civ[c].colonies)

RegisteredColonySum ==
    RSum([c \in Range(civilizations) |-> ColonySum(c)], Range(civilizations))

C15_StatisticsDates ==
    /\ \A i \in StatisticsEvents :
          /\ history[i].date % 10 = 0
          /\ history[i].date >= 1
          /\ \A j \in 1..Len(history) :
                (j # i /\ history[j].date = history[i].date) =>
                    (j < i /\ history[j].event # "statistics")
    /\ \A d \in 1..current_date :
          (d % 10 = 0 /\ (d < current_date \/ pc = "idle")) =>
              \E i \in StatisticsEvents : history[i].date = d
    /\ (pc # "idle") =>
          \A i \in StatisticsEvents : history[i].date # current_date

C15_StatisticsAtEndOfTick ==
    AtEndTick(State) =>
        IF current_date % 10 = 0
        THEN /\ Len(history') = Len(history) + 1
             /\ SubSeq(history', 1, Len(history)) = history
             /\ Last(history').event = "statistics"
             /\ Last(history').date = current_date
             /\ Last(history').data.civilizations = Len(civilizations)
             /\ Last(history').data.total_population = RegisteredColonySum
             /\ civilizations' = civilizations
             /\ civ' = civ
        ELSE history' = history

(* C15: a statistics event is appended in a tick exactly when the new date *)
(* is a multiple of 10; it is appended when the tick ends, after every     *)
(* other event of that date, and it records the number of civilizations    *)
(* then registered and the sum of their colony populations.                *)
C15_StatisticsEveryTenth ==
    [](C15_StatisticsDates) /\ [][C15_StatisticsAtEndOfTick]_vars

\* Tick 10 has ended with an extinction in it: the statistics event follows
\* the civilization_extinct event of the same date and counts the survivor.
C15_Witness ==
    /\ pc = "idle"
    /\ current_date = 10
    /\ Last(history).event = "statistics"
    /\ Last(history).data.civilizations = 1
    /\ RGt(Last(history).data.total_population, R(0))
    /\ \E i \in 1..Len(history) :
          /\ history[i].event = "civilization_extinct"
          /\ history[i].date = 10

\* The stars that hold a colony entry of a registered civilization.
ColonisedStars ==
    UNION {DOMAIN civ[c].colonies : c \in Range(civilizations)}

(* C16: the inhabited_stars value of every statistics event is the number  *)
(* of distinct stars that hold, when it is logged, a colony entry of at    *)
(* least one registered civilization. The code counts the stars in the     *)
(* registered civilizations' visited_stars; a colony entry is only ever    *)
(* removed by a conflict whose winner holds an entry at the same star, so  *)
(* the two counts agree.                                                   *)
C16_InhabitedStarsCounted ==
    [][(AtEndTick(State) /\ current_date % 10 = 0) =>
          /\ Last(history').event = "statistics"
          /\ Last(history').data.inhabited_stars
                = Cardinality(ColonisedStars)]_vars

\* Statistics were logged while a registered civilization had visited a star
\* where it no longer holds a colony.
C16_Witness ==
    /\ pc = "idle"
    /\ current_date = 10
    /\ Last(history).event = "statistics"
    /\ Last(history).data.inhabited_stars = Cardinality(ColonisedStars)
    /\ \E c \in Range(civilizations) :
          \E i \in 1..Len(civ[c].visited_stars) :
              civ[c].visited_stars[i].star \notin DOMAIN civ[c].colonies

\* An id no civilization was ever built with.
UnknownId == "civ_9"

(* C17: remove_civilization with an id that is not registered returns the  *)
(* program state unchanged; with a registered id it removes that entry     *)
(* alone, keeping the others in order, appends exactly one                 *)
(* civilization_extinct event for it and touches nothing else; a second    *)
(* call with the same id changes nothing more.                             *)
C17_RemoveCivilization ==
    \A id \in CivIds \cup {UnknownId} :
        LET once == remove_civilization(State, id)
            twice == remove_civilization(once, id)
        IN  /\ twice = once
            /\ IF id \notin Range(civilizations)
               THEN once = State
               ELSE /\ once.civilizations
                          = SelectSeq(civilizations, LAMBDA c : c # id)
                    /\ Len(once.civilizations) = Len(civilizations) - 1
                    /\ Len(once.history) = Len(history) + 1
                    /\ SubSeq(once.history, 1, Len(history)) = history
                    /\ Last(once.history).event = "civilization_extinct"
                    /\ Last(once.history).data.id = id
                    /\ Last(once.history).date = current_date
                    /\ [once EXCEPT !.civilizations = civilizations,
                                    !.history = history] = State

\* One civilization has been removed and is no longer registered, another
\* still is: the call has a registered, a removed and an unknown id to take.
C17_Witness ==
    /\ \E c \in CivIds : Extinct(c) /\ c \notin Range(civilizations)
    /\ \E c \in CivIds : c \in Range(civilizations)
    /\ UnknownId \notin CivIds

(* C18: for every civilization, registered or removed, every key of        *)
(* colonies is a key of visited_stars.                                     *)
C18_ColoniesWithinVisited ==
    \A c \in CivIds :
        DOMAIN civ[c].colonies \subseteq Range(VisitedKeys(civ[c]))

\* A civilization that expanded and then lost one of its colonies: its
\* colonies are a proper, non-empty part of the stars it visited.
C18_Witness ==
    \E c \in CivIds :
        /\ Len(civ[c].visited_stars) >= 2
        /\ DOMAIN civ[c].colonies # {}
        /\ DOMAIN civ[c].colonies # Range(VisitedKeys(civ[c]))

C19_FirstVisitWins ==
    \A k \in 1..Len(stars) :
        /\ \A i, j \in 1..Len(stars[k].visiting_civilizations) :
              stars[k].visiting_civilizations[i].civ
                  = stars[k].visiting_civilizations[j].civ => i = j
        /\ \A id \in CivIds \cup {UnknownId} :
              \A date \in {current_date, current_date + 1} :
                  LET visited == record_visit(stars[k], id, date)
                  IN  /\ IF \E i \in 1..Len(stars[k].visiting_civilizations) :
                                stars[k].visiting_civilizations[i].civ = id
                         THEN visited = stars[k]
                         ELSE visited
                                = [stars[k] EXCEPT
                                     !.visiting_civilizations =
                                         Append(@, [civ |-> id,
                                                    date |-> date])]
                      /\ record_visit(visited, id, date + 1) = visited

C19_VisitsOnlyAppended ==
    /\ Len(stars') = Len(stars)
    /\ \A k \in 1..Len(stars) :
          IsPrefix(stars[k].visiting_civilizations,
                   stars'[k].visiting_civilizations)

(* C19: record_visit stores the date of the first call for a civilization  *)
(* id and leaves the star unchanged on every later call for that id, it    *)
(* never touches the entries of other ids, and no step of the program      *)
(* removes or changes an entry of a star's visit map.                      *)
C19_RecordVisitIdempotent ==
    [](C19_FirstVisitWins) /\ [][C19_VisitsOnlyAppended]_vars

\* A star holds the first-visit dates of two civilizations that reached it
\* in different ticks.
C19_Witness ==
    \E k \in 1..Len(stars) :
        /\ Len(stars[k].visiting_civilizations) = 2
        /\ stars[k].visiting_civilizations[1].date
              < stars[k].visiting_civilizations[2].date

(* C20: after a hostile interaction the loser's colony entry at the star   *)
(* is removed when what remains of it is at most 100 and is kept, holding  *)
(* the reduced value, when more remains; either way the star stays in the  *)
(* loser's visited_stars with its first-visit date.                        *)
C20_DefeatedColonyRemoved ==
    [][AtHostile(State) =>
          LET remaining == RSub(LoserBefore, RMul(LoserBefore, <<1, 2>>))
          IN  /\ IF RLe(remaining, R(100))
                 THEN Battlefield \notin DOMAIN civ'[Loser].colonies
                 ELSE /\ Battlefield \in DOMAIN civ'[Loser].colonies
                      /\ civ'[Loser].colonies[Battlefield] = remaining
              /\ civ'[Loser].visited_stars = civ[Loser].visited_stars
              /\ HasVisited(civ'[Loser], Battlefield)]_vars

\* A conflict left the loser with exactly 100: the winner captured 100, the
\* loser's colony is gone and the star is still among its visited stars.
C20_Witness ==
    /\ HostileResolved
    /\ InteractionStar(State) \notin DOMAIN civ[visitors[wi - 1]].colonies
    /\ HasVisited(civ[visitors[wi - 1]], InteractionStar(State))
    /\ \E i \in 1..Len(civ[Self(State)].history) :
          LET e == civ[Self(State)].history[i]
          IN  /\ FoughtEvent(e)
              /\ e.event = "conflict_won"
              /\ e.data.captured_population = R(100)

-----------------------------------------------------------------------------
\* Configurations the specification calls invalid.
ValidConfiguration(params) ==
    /\ RGt(params.individual_lifespan, R(0))
    /\ RLe(R(0), params.cooperation_factor)
    /\ RLe(params.cooperation_factor, R(1))
    /\ RLe(R(0), params.aggression_factor)
    /\ RLe(params.aggression_factor, R(1))

\* A civilization with a lifespan of zero, offered to the constructor.
Ageless ==
    CivilizationParams("civ_3",
        Founder([Doves EXCEPT !.individual_lifespan = R(0)], "star_0", 1000))

(* C21 as claimed: constructing a civilization from an invalid            *)
(* configuration (lifespan <= 0, cooperation or aggression outside [0,1])  *)
(* fails: no civilization object holds such a configuration, and the       *)
(* constructor leaves no object, no visit on the origin star and no        *)
(* founding event behind.                                                  *)
C21_InvalidConfigurationRejected ==
    /\ \A c \in CivIds : ValidConfiguration(civ[c].params)
    /\ HasStar(State, Ageless.origin_star) =>
          civilization_init(State, Ageless) = State

(* C22 as claimed: once the stars have been initialized the star registry  *)
(* is never empty; initializing with a count that yields no star fails     *)
(* instead of leaving an empty universe.                                   *)
C22_StarsNeverEmpty ==
    /\ stars # <<>>
    /\ \A count \in {-1, 0} :
          initialize_stars(NewUniverse, count, StarField).stars # <<>>

(* C23: a visitor met in the interaction phase is interacted with only if  *)
(* both the running civilization and the visitor hold a colony at the star *)
(* at that moment; when either holds none (a star merely visited, or a     *)
(* colony removed earlier in the tick) the step changes no civilization,   *)
(* no star, no registry entry and logs no event.                           *)
C23_OnlyEstablishedInteract ==
    [][AtVisitor(State) =>
          LET both == /\ Battlefield \in DOMAIN civ[Initiator].colonies
                      /\ Battlefield \in DOMAIN civ[Opponent].colonies
          IN  ~both => /\ civ' = civ
                       /\ stars' = stars
                       /\ civilizations' = civilizations
                       /\ history' = history]_vars

\* The visitor just passed over is registered and has visited the star, but
\* lost its colony there in a conflict earlier in this tick, while the
\* running civilization holds one.
C23_Witness ==
    /\ pc = "visitor" /\ wi > 1
    /\ LET other == visitors[wi - 1]
           star_id == InteractionStar(State)
       IN  /\ other \in Range(civilizations)
           /\ HasVisited(civ[other], star_id)
           /\ star_id \notin DOMAIN civ[other].colonies
           /\ star_id \in DOMAIN civ[Self(State)].colonies
           /\ \E i \in 1..Len(civ[other].history) :
                 LET e == civ[other].history[i]
                 IN  /\ e.event = "conflict_lost"
                     /\ e.date = current_date
                     /\ e.data.at_star = star_id

(* C24: the kind of an interaction is chosen from the initiator's own      *)
(* factors alone: peaceful when its cooperation factor is strictly greater *)
(* than its aggression factor (no conflict, no colony or registry change), *)
(* hostile otherwise, equal factors included (a conflict is resolved and   *)
(* logged), whatever the other civilization's factors are.                 *)
C24_InitiatorChoosesKind ==
    [][(AtVisitor(State) /\ ~visitor_skipped(State)) =>
          LET own == civ[Initiator].params
              fought == \/ HasNewEvent(Initiator, "conflict_won")
                        \/ HasNewEvent(Initiator, "conflict_lost")
          IN  IF RGt(own.cooperation_factor, own.aggression_factor)
              THEN /\ ~fought
                   /\ \A c \in CivIds : civ'[c].colonies = civ[c].colonies
                   /\ civilizations' = civilizations
              ELSE fought]_vars

\* A civilization whose own factors make it peaceful has just lost
\* population to a hostile civilization running its update at a shared star.
C24_Witness ==
    /\ HostileResolved
    /\ LET victim == civ[visitors[wi - 1]].params
       IN  RGt(victim.cooperation_factor, victim.aggression_factor)
    /\ \E i \in 1..Len(civ[Self(State)].history) :
          LET e == civ[Self(State)].history[i]
          IN  /\ FoughtEvent(e)
              /\ e.event = "conflict_won"
              /\ RGt(e.data.captured_population, R(0))

\* The stars civilization c had visited before the current tick.
VisitedBefore(c) ==
    SelectSeq(civ[c].visited_stars, LAMBDA v : v.date < current_date)

(* C25: expansion is rate limited.  The successful expansion that brings   *)
(* the number of visited stars to a multiple of 10 ends the expansion      *)
(* phase, no attempt is made in a tick after such a success, and a         *)
(* civilization that began the tick with n visited stars never holds more  *)
(* than the smallest multiple of 10 strictly greater than n.               *)
C25_BatchBound ==
    /\ \A c \in CivIds :
          Len(civ[c].visited_stars)
              <= ExpansionBatch * (Len(VisitedBefore(c)) \div ExpansionBatch)
                   + ExpansionBatch
    /\ (AtAttempt(State)
          /\ Len(civ[Self(State)].visited_stars) % ExpansionBatch = 0)
       => VisitedBefore(Self(State)) = civ[Self(State)].visited_stars

C25_SuccessEndsPhase ==
    [][(/\ AtAttempt(State)
        /\ Len(civ'[Initiator].visited_stars)
             > Len(civ[Initiator].visited_stars)
        /\ Len(civ'[Initiator].visited_stars) % ExpansionBatch = 0)
       => pc' = "interaction"]_vars

\* C25: the bound on visited stars together with the end of the phase.
C25_ExpansionRateLimited == []C25_BatchBound /\ C25_SuccessEndsPhase

\* The running civilization reached its tenth visited star in this tick and
\* went on to the interaction phase although an unvisited star is still
\* within range of a star it had visited before the tick.
C25_Witness ==
    /\ pc = "interaction"
    /\ LET self == civ[Self(State)]
       IN  /\ Len(self.visited_stars) = ExpansionBatch
           /\ Len(VisitedBefore(Self(State))) < ExpansionBatch
           /\ \E o \in 1..Len(VisitedBefore(Self(State))),
                 k \in 1..Len(stars) :
                 /\ ~HasVisited(self, stars[k].id)
                 /\ ~beyond_range(self.params,
                        get_star(State, VisitedBefore(Self(State))[o].star),
                        stars[k])

AfterTechnology == {"expansion", "origin", "candidate", "interaction", "visitor"}

(* C26: inside one update the phases run as population, technology,        *)
(* expansion, interaction, and each phase works on what the earlier ones   *)
(* left: from the expansion phase on, the population and technology        *)
(* samples of this tick exist and the technology level in use is the one   *)
(* advanced in this tick (raised further only by the tick's own peaceful   *)
(* exchanges in the interaction phase).                                    *)
C26_EarlierPhasesDone ==
    InUpdate =>
        LET self == civ[Self(State)]
        IN  /\ pc = "population" =>
                  Len(self.population_history) = Len(self.tech_history)
            /\ pc = "technology" =>
                  /\ Len(self.population_history)
                        = Len(self.tech_history) + 1
                  /\ Last(self.population_history)[1] = current_date
            /\ pc \in AfterTechnology =>
                  /\ Len(self.population_history) = Len(self.tech_history)
                  /\ Last(self.population_history)[1] = current_date
                  /\ Last(self.tech_history)[1] = current_date
                  /\ IF pc \in {"interaction", "visitor"}
                     THEN RLe(Last(self.tech_history)[2],
                              self.params.tech_level)
                     ELSE Last(self.tech_history)[2]
                            = self.params.tech_level

(* C26, continued: the order of the phases; the candidates of an origin    *)
(* are the unvisited stars within expansion_range times this tick's        *)
(* technology level; a new colony takes a tenth of the origin colony as    *)
(* the population phase left it; a conflict is decided on the colonies and *)
(* technology levels as they stand when the interaction phase runs.        *)
C26_PhaseOrder ==
    [][/\ pc = "population" => pc' = "technology"
       /\ pc = "technology" => pc' = "expansion"
       /\ pc = "expansion" => pc' \in {"origin", "interaction"}
       /\ pc \in {"origin", "candidate"} =>
             pc' \in {"origin", "candidate", "interaction"}
       /\ pc \in {"interaction", "visitor"} =>
             pc' \in {"interaction", "visitor", "loop"}
       /\ (pc = "origin" /\ pc' = "candidate") =>
             LET self == civ[Initiator]
                 origin == get_star(State, OriginStar(State))
                 reach == RMul(self.params.expansion_range,
                               Last(self.tech_history)[2])
             IN  Range(candidates')
                   = {stars[k].id : k \in
                        {j \in 1..Len(stars) :
                           /\ RLe(distance_to(origin, stars[j]), reach)
                           /\ RGt(distance_to(origin, stars[j]), R(0))
                           /\ ~HasVisited(self, stars[j].id)}}
       /\ (AtAttempt(State) /\ HasNewEvent(Initiator, "expansion")) =>
             civ'[Initiator].colonies[CandidateStar(State)]
               = RMul(LocalPopulation(civ, Initiator, OriginStar(State)),
                      ColonyFraction)
       /\ (AtVisitor(State) /\ (HasNewEvent(Initiator, "conflict_won")
                                \/ HasNewEvent(Initiator, "conflict_lost")))
             => (InitiatorWon <=> RGt(StrengthBefore(Initiator),
                                      StrengthBefore(Opponent)))]_vars

\* C26: phase order and what each phase observes.
C26_PhasesInOrder == []C26_EarlierPhasesDone /\ C26_PhaseOrder

\* In its interaction phase a civilization has fought at a star it first
\* colonised in the expansion phase of the same tick.
C26_Witness ==
    /\ HostileResolved
    /\ \E i \in 1..Len(civ[Self(State)].visited_stars) :
          /\ civ[Self(State)].visited_stars[i].star = InteractionStar(State)
          /\ civ[Self(State)].visited_stars[i].date = current_date
          /\ i > 1

(* C27: the expansion phase iterates over the visited stars as they were   *)
(* when the phase began: the origins are exactly the stars visited before  *)
(* this tick, in order, so a star first visited in this phase is never an  *)
(* origin in the same tick.                                                *)
C27_OriginsAreSnapshot ==
    pc \in {"origin", "candidate"} =>
        LET before == VisitedBefore(Self(State))
        IN  origins = [i \in 1..Len(before) |-> before[i].star]

(* C27, continued: the candidates of an origin are filtered against the    *)
(* visited stars as they are when that origin is processed, this tick's    *)
(* new visits included.                                                    *)
C27_FilterIsLive ==
    [][(pc = "origin" /\ pc' = "candidate") =>
          \A i \in 1..Len(candidates') :
              ~HasVisited(civ[Initiator], candidates'[i])]_vars

\* C27: snapshot of origins, live filter of candidates.
C27_SnapshotOrigins == []C27_OriginsAreSnapshot /\ C27_FilterIsLive

\* The second origin of the phase is being processed; a star visited from
\* an earlier origin in this very phase lies within its range, is not among
\* the origins and is not among its candidates.
C27_Witness ==
    /\ pc \in {"origin", "candidate"}
    /\ oi >= 2 /\ oi <= Len(origins)
    /\ LET self == civ[Self(State)]
       IN  \E i \in 1..Len(self.visited_stars) :
              LET v == self.visited_stars[i]
              IN  /\ v.date = current_date
                  /\ v.star \notin Range(origins)
                  /\ v.star \notin Range(candidates)
                  /\ ~beyond_range(self.params,
                                   get_star(State, OriginStar(State)),
                                   get_star(State, v.star))

(* C28: a successful expansion moves exactly 10% of the origin colony's    *)
(* current population: the origin colony decreases by it, the new colony   *)
(* starts with it, the civilization's summed colony population is          *)
(* unchanged, the target is appended to visited_stars and entered in the   *)
(* star's visit map with the current date, and exactly one "expansion"     *)
(* event is logged.                                                        *)
C28_ExpansionMovesTenth ==
    [][(AtAttempt(State)
          /\ civ'[Initiator].visited_stars # civ[Initiator].visited_stars) =>
          LET c == Initiator
              origin == OriginStar(State)
              target == CandidateStar(State)
              moved == RMul(LocalPopulation(civ, c, origin), <<1, 10>>)
          IN  /\ LocalPopulation(civ', c, origin)
                    = RSub(LocalPopulation(civ, c, origin), moved)
              /\ target \notin DOMAIN civ[c].colonies
              /\ target \in DOMAIN civ'[c].colonies
              /\ civ'[c].colonies[target] = moved
              /\ RSum(civ'[c].colonies, DOMAIN civ'[c].colonies)
                    = RSum(civ[c].colonies, DOMAIN civ[c].colonies)
              /\ civ'[c].visited_stars
                    = Append(civ[c].visited_stars,
                             [star |-> target, date |-> current_date])
              /\ \E k \in 1..Len(stars') :
                    /\ stars'[k].id = target
                    /\ \E i \in 1..Len(stars'[k].visiting_civilizations) :
                          stars'[k].visiting_civilizations[i]
                            = [civ |-> c, date |-> current_date]
              /\ Len(NewEvents(c)) = 1
              /\ NewEvents(c)[1].event = "expansion"
              /\ NewEvents(c)[1].date = current_date
              /\ NewEvents(c)[1].data.from_star = origin
              /\ NewEvents(c)[1].data.to_star = target
              /\ NewEvents(c)[1].data.colony_size = moved]_vars

\* The running civilization has just founded a colony with a positive
\* number of settlers taken from a populated origin.
C28_Witness ==
    /\ pc \in {"candidate", "interaction"}
    /\ LET self == civ[Self(State)]
           e == Last(self.history)
       IN  /\ e.event = "expansion"
           /\ e.date = current_date
           /\ Last(self.visited_stars).star = e.data.to_star
           /\ RGt(e.data.colony_size, R(0))
           /\ self.colonies[e.data.to_star] = e.data.colony_size
           /\ RGt(LocalPopulation(civ, Self(State), e.data.from_star), R(0))

\* a was added to the registry before b.
Precedes(a, b) ==
    \E i, j \in 1..Len(InsertionOrder) :
        i < j /\ InsertionOrder[i] = a /\ InsertionOrder[j] = b

(* C29: civilizations are updated one after the other in insertion order,  *)
(* each completely.  When A precedes B, A's interaction with B in tick t   *)
(* sees B as it was before B's tick-t update (B has not been called and    *)
(* has one sample fewer than A), and when B's turn comes it meets A        *)
(* already updated.                                                        *)
C29_EarlierSeesPreUpdate ==
    (AtVisitor(State) /\ Opponent \in Range(RegistryAtTickStart)) =>
        /\ Precedes(Initiator, Opponent) =>
              /\ Opponent \notin Range(update_calls)
              /\ Len(civ[Opponent].population_history) + 1
                    = Len(civ[Initiator].population_history)
              /\ Len(civ[Opponent].tech_history) + 1
                    = Len(civ[Initiator].tech_history)
        /\ Precedes(Opponent, Initiator) =>
              /\ Opponent \in Range(update_calls)
              /\ Len(civ[Opponent].population_history)
                    = Len(civ[Initiator].population_history)

(* C29, continued: the population phase of a civilization grows the        *)
(* colonies it holds when its turn comes, i.e. what earlier civilizations' *)
(* conflicts of this tick left of them, and brings back no colony that a   *)
(* conflict removed.                                                       *)
C29_LaterGrowsFromCurrent ==
    [][pc = "population" =>
          LET c == Initiator
              own == civ[c].params
          IN  /\ DOMAIN civ'[c].colonies = DOMAIN civ[c].colonies
              /\ \A s \in DOMAIN civ[c].colonies :
                    LET star == get_star(State, s)
                        rate == RMul(RSub(own.reproduction_rate,
                                          RDiv(R(1), own.individual_lifespan)),
                                     star.resources)
                        grown == RMul(civ[c].colonies[s], RAdd(R(1), rate))
                        capacity == RMul(RMul(star.resources, R(1000000000)),
                                         R(star.planets))
                    IN  civ'[c].colonies[s]
                          = IF RGt(grown, capacity) THEN capacity
                            ELSE grown]_vars

\* C29: sequential updates in insertion order.
C29_SequentialUpdates == []C29_EarlierSeesPreUpdate /\ C29_LaterGrowsFromCurrent

\* The second civilization has just run its population phase in a tick in
\* which the first one took half of its colony: the colony has grown from
\* the half the conflict left and now holds more than that half.
C29_Witness ==
    /\ pc = "technology"
    /\ \E a \in CivIds :
          /\ Precedes(a, Self(State))
          /\ \E i \in 1..Len(civ[a].history) :
                LET e == civ[a].history[i]
                    self == civ[Self(State)]
                IN  /\ e.event = "conflict_won"
                    /\ e.date = current_date
                    /\ e.data.against_civilization = Self(State)
                    /\ e.data.at_star \in DOMAIN self.colonies
                    /\ RGt(self.colonies[e.data.at_star],
                           e.data.captured_population)
                    /\ Last(self.population_history)[1] = current_date

\* How many times update has been called on civilization c so far: once in
\* every tick that began with c registered.
UpdatesStarted(c) ==
    IF Extinct(c) /\ ExtinctionDate(c) < current_date THEN ExtinctionDate(c)
    ELSE IF current_date = 0 THEN 0
    ELSE current_date - 1 + (IF c \in Range(update_calls) THEN 1 ELSE 0)

(* C30: every update appends exactly one sample to population_history (in  *)
(* its population phase) and one to tech_history (in its technology        *)
(* phase), stamped with the current date: after k updates both hold 1 + k  *)
(* samples, the k-th update's samples carry date k, and the newest         *)
(* population sample is the sum of the colonies as the population phase    *)
(* left them.                                                              *)
C30_OneSamplePerUpdate ==
    /\ \A c \in CivIds :
          LET self == civ[c]
              running == InUpdate /\ Self(State) = c
              k == UpdatesStarted(c)
          IN  /\ Len(self.population_history)
                    = IF running /\ pc = "population" THEN k ELSE 1 + k
              /\ Len(self.tech_history)
                    = IF running /\ pc \in {"population", "technology"}
                      THEN k ELSE 1 + k
              /\ \A i \in 2..Len(self.population_history) :
                    self.population_history[i][1] = i - 1
              /\ \A i \in 2..Len(self.tech_history) :
                    self.tech_history[i][1] = i - 1
    /\ pc = "technology" =>
          Last(civ[Self(State)].population_history)
            = <<current_date, ColonySum(Self(State))>>

\* Between ticks, after at least two of them: one civilization is gone and
\* stopped being sampled at its extinction, the other is registered, has
\* been sampled in every tick and its newest sample differs from its first.
C30_Witness ==
    /\ pc = "idle" /\ current_date >= 2
    /\ \E c, d \in CivIds :
          /\ Extinct(d) /\ ExtinctionDate(d) < current_date
          /\ Len(civ[d].tech_history) = 1 + ExtinctionDate(d)
          /\ c \in Range(civilizations)
          /\ Len(civ[c].population_history) = 1 + current_date
          /\ Len(civ[c].tech_history) = 1 + current_date
          /\ Last(civ[c].population_history)[2]
                # civ[c].population_history[1][2]

(* C31: a visitor id recorded on a star whose civilization is no longer in *)
(* the registry is passed over silently: the step changes no civilization, *)
(* no star, no registry entry and no history, and the loop moves on to the *)
(* next visitor of the same star.                                          *)
C31_MissingVisitorSkipped ==
    [][(AtVisitor(State) /\ Opponent \notin Range(civilizations)) =>
          /\ civ' = civ
          /\ stars' = stars
          /\ civilizations' = civilizations
          /\ history' = history
          /\ pc' = "visitor"
          /\ visitors' = visitors
          /\ wi' = wi + 1
          /\ vi' = vi /\ si' = si]_vars

\* A registered civilization has just passed over the id of an extinct
\* civilization that still holds colony entries at the star they share.
C31_Witness ==
    /\ pc = "visitor" /\ wi > 1
    /\ Self(State) \in Range(civilizations)
    /\ Extinct(visitors[wi - 1])
    /\ visitors[wi - 1] \notin Range(civilizations)
    /\ InteractionStar(State) \in DOMAIN civ[visitors[wi - 1]].colonies
    /\ InteractionStar(State) \in DOMAIN civ[Self(State)].colonies

\* What of a star never changes, and the keys of its visit map.
StarBody(star) ==
    [id |-> star.id, position |-> star.position,
     resources |-> star.resources, planets |-> star.planets]

VisitorIds(star) ==
    {star.visiting_civilizations[i].civ :
        i \in 1..Len(star.visiting_civilizations)}

(* C32: the star registry is fixed after initialization.  No step of a     *)
(* tick adds or removes a star or changes a star's id, position, resources *)
(* or planets; a step changes a star's visit map only by adding entries    *)
(* after the existing ones.  add_civilization and remove_civilization      *)
(* leave the stars untouched.                                              *)
C32_StarsOnlyGainVisitors ==
    [][/\ Len(stars') = Len(stars)
       /\ \A k \in 1..Len(stars) :
             /\ StarBody(stars'[k]) = StarBody(stars[k])
             /\ IsPrefix(stars[k].visiting_civilizations,
                         stars'[k].visiting_civilizations)
             /\ VisitorIds(stars[k]) \subseteq VisitorIds(stars'[k])]_vars

C32_RegistryCallsKeepStars ==
    \A c \in CivIds :
        /\ add_civilization(State, c).stars = stars
        /\ remove_civilization(State, c).stars = stars

\* C32: the stars are fixed; only visit maps grow.
C32_StarsFixed == []C32_RegistryCallsKeepStars /\ C32_StarsOnlyGainVisitors

\* An expansion has just added a second key to the visit map of a star
\* another civilization had visited before.
C32_Witness ==
    /\ pc \in {"candidate", "interaction"}
    /\ Last(civ[Self(State)].history).event = "expansion"
    /\ \E k \in 1..Len(stars) :
          /\ stars[k].id = Last(civ[Self(State)].history).data.to_star
          /\ Len(stars[k].visiting_civilizations) = 2
          /\ stars[k].visiting_civilizations[2]
                = [civ |-> Self(State), date |-> current_date]

(* C33: Universe.history and every civilization's history are append-only: *)
(* every step keeps the previous sequence of events unchanged as a prefix  *)
(* of the new one.                                                         *)
C33_HistoriesOnlyAppended ==
    [][/\ IsPrefix(history, history')
       /\ \A c \in CivIds : IsPrefix(civ[c].history, civ'[c].history)]_vars

(* C33, continued: the dates of the events in Universe.history never       *)
(* decrease along the sequence.                                            *)
C33_UniverseDatesOrdered ==
    \A i, j \in 1..Len(history) : i <= j => history[i].date <= history[j].date

\* C33: append-only histories with ordered dates.
C33_AppendOnly == []C33_UniverseDatesOrdered /\ C33_HistoriesOnlyAppended

\* Universe.history holds events of three different dates and a
\* civilization's own history has grown beyond its founding event.
C33_Witness ==
    /\ \E i, j, k \in 1..Len(history) :
          /\ history[i].date < history[j].date
          /\ history[j].date < history[k].date
    /\ \E c \in CivIds : Len(civ[c].history) >= 3

\* Civilizations founded with a positive population.
FoundedPopulated(c) == RGt(civ[c].population_history[1][2], R(0))

(* C34 as claimed: every colony entry of every civilization founded with a *)
(* positive population holds a strictly positive population; expansion     *)
(* never creates a colony of population 0 and never creates a colony entry *)
(* at an origin star where the civilization holds no colony.  Stated here  *)
(* for the registered civilizations, which is all the refutation needs.    *)
C34_ColoniesPositive ==
    \A c \in CivIds :
        (FoundedPopulated(c) /\ c \in Range(civilizations)) =>
            \A s \in DOMAIN civ[c].colonies : RGt(civ[c].colonies[s], R(0))

(* C35: the two sides of a visit agree.  Star s is among civilization c's  *)
(* visited_stars exactly when c is a key of s's visit map, and both record *)
(* the same first-visit date; this holds for civilizations removed from    *)
(* the registry as well, whose ids stay in the stars' visit maps.          *)
C35_VisitsAgree ==
    \A c \in CivIds : \A k \in 1..Len(stars) :
        /\ HasVisited(civ[c], stars[k].id) <=> c \in VisitorIds(stars[k])
        /\ \A i \in 1..Len(civ[c].visited_stars) :
              civ[c].visited_stars[i].star = stars[k].id =>
                  \E j \in 1..Len(stars[k].visiting_civilizations) :
                      stars[k].visiting_civilizations[j]
                        = [civ |-> c, date |-> civ[c].visited_stars[i].date]

\* A civilization removed from the registry is still recorded on a star it
\* visited, and a registered civilization has visited a second star.
C35_Witness ==
    /\ \E c \in CivIds : \E k \in 1..Len(stars) :
          /\ Extinct(c) /\ c \notin Range(civilizations)
          /\ c \in VisitorIds(stars[k])
    /\ \E c \in Range(civilizations) : Len(civ[c].visited_stars) >= 2

(* C36: a civilization removed from the registry changes nothing outside   *)
(* itself when its update still runs in the tick of its removal: no other  *)
(* civilization's colonies or tech level change, the registry keeps its    *)
(* entries and Universe.history gains no event.                            *)
C36_RemovedCivilizationHarmless ==
    [][(InUpdate /\ Self(State) \notin Range(civilizations)) =>
          /\ \A c \in CivIds \ {Self(State)} :
                /\ civ'[c].colonies = civ[c].colonies
                /\ civ'[c].params.tech_level = civ[c].params.tech_level
          /\ civilizations' = civilizations
          /\ history' = history]_vars

\* A civilization founded with a positive population and removed earlier in
\* this tick has, in its own update, fought a registered civilization over
\* a colony entry of population 0 and lost nothing to it.
C36_Witness ==
    /\ pc = "visitor" /\ wi > 1
    /\ Extinct(Self(State))
    /\ Self(State) \notin Range(civilizations)
    /\ visitors[wi - 1] \in Range(civilizations)
    /\ FoundedPopulated(Self(State))
    /\ LET e == Last(civ[Self(State)].history)
       IN  /\ e.event = "conflict_lost"
           /\ e.date = current_date
           /\ e.data.against_civilization = visitors[wi - 1]
           /\ e.data.lost_population = R(0)

(* C37: a peaceful interaction changes nothing but the initiator's tech    *)
(* level and the initiator's history: every civilization's colonies and    *)
(* visited stars, the other civilization as a whole, the registry,         *)
(* Universe.history and every star, visit maps included, stay as they are. *)
C37_PeacefulFrame ==
    [][(/\ AtVisitor(State) /\ ~visitor_skipped(State)
        /\ RGt(civ[Initiator].params.cooperation_factor,
               civ[Initiator].params.aggression_factor)) =>
          /\ \A c \in CivIds \ {Initiator} : civ'[c] = civ[c]
          /\ [civ'[Initiator] EXCEPT
                 !.params.tech_level = civ[Initiator].params.tech_level,
                 !.history = civ[Initiator].history] = civ[Initiator]
          /\ IsPrefix(civ[Initiator].history, civ'[Initiator].history)
          /\ civilizations' = civilizations
          /\ history' = history
          /\ stars' = stars]_vars

\* A peaceful exchange has just raised the initiator's tech level; the
\* initiator is still listed in the visit map of the star.
C37_Witness ==
    /\ pc = "visitor" /\ wi > 1
    /\ LET e == Last(civ[Self(State)].history)
       IN  /\ e.event = "tech_exchange"
           /\ e.date = current_date
           /\ e.data.with_civilization = visitors[wi - 1]
           /\ RGt(e.data.tech_boost, R(0))
    /\ Self(State) \in VisitorIds(get_star(State, InteractionStar(State)))

(* C38 as claimed: when an update has ended, the newest sample of the      *)
(* civilization's tech_history equals its current tech level, boosts from  *)
(* this tick's peaceful exchanges included.                                *)
C38_NewestSampleIsCurrentLevel ==
    (pc = "loop" /\ si > 1) =>
        LET self == civ[snapshot[si - 1]]
        IN  Last(self.tech_history)[2] = self.params.tech_level

(* C39: run_simulation(steps) makes exactly `steps` calls of update and    *)
(* then stops: the loop counter never passes steps, current_date is the    *)
(* number of updates begun (the runs start at date 0), 0 steps changes     *)
(* nothing, and the callback has been invoked once for every completed     *)
(* update, the i-th invocation seeing date i.                              *)
C39_LoopCounts ==
    /\ step <= steps
    /\ Len(callbacks) = step
    /\ current_date = IF pc = "idle" THEN step ELSE step + 1
    /\ \A i \in 1..Len(callbacks) : callbacks[i].current_date = i
    /\ steps = 0 =>
          /\ pc = "idle" /\ current_date = 0
          /\ \A c \in CivIds : Len(civ[c].history) = 1
          /\ Len(history) = Len(civilizations)

(* C39, continued: the callback is invoked exactly when an update returns  *)
(* and sees the universe as the completed tick left it, the statistics     *)
(* event of that tick included.                                            *)
C39_CallbackSeesCompletedTick ==
    [][/\ (pc # "idle" /\ pc' = "idle") <=> callbacks' # callbacks
       /\ callbacks' # callbacks =>
             /\ callbacks' = Append(callbacks,
                    [current_date |-> current_date',
                     civilizations |-> civilizations',
                     events |-> Len(history')])
             /\ current_date' = current_date
             /\ step' = step + 1]_vars

(* C39, continued: the loop terminates, with current_date exactly `steps`  *)
(* higher than at the start and `steps` callback invocations made.         *)
C39_Terminates ==
    <>[](/\ pc = "idle" /\ step = steps
         /\ current_date = steps /\ Len(callbacks) = steps)

\* C39: run_simulation counts, calls back and terminates.
C39_RunSimulation ==
    []C39_LoopCounts /\ C39_CallbackSeesCompletedTick /\ C39_Terminates

\* A run of at least two steps over an empty registry has returned: the
\* callback ran once per step and last saw the final date and no civilization.
C39_Witness ==
    /\ pc = "idle"
    /\ steps >= 2
    /\ step = steps
    /\ current_date = steps
    /\ civilizations = <<>>
    /\ Len(callbacks) = steps
    /\ callbacks[steps].current_date = steps
    /\ callbacks[steps].civilizations = <<>>

=============================================================================
